---- MODULE Spec2Model ----
(***************************************************************************)
(* Inventory reconciliation of stock-mss (src/backend/server.js): the      *)
(* Spare_Part catalog, the Stock_In and Stock_Out ledgers and the request  *)
(* handlers that keep Spare_Part.Quantity in step with the ledgers.        *)
(*                                                                         *)
(* A request runs in a slot.  Every await of a handler is one step, so     *)
(* that the steps of two requests interleave the way the event loop and    *)
(* the database interleave them.  The database is MySQL/InnoDB at its      *)
(* default isolation level (REPEATABLE READ): a plain SELECT reads the     *)
(* snapshot taken at the first SELECT of the transaction and takes no      *)
(* lock; INSERT, UPDATE and DELETE work on the latest committed rows, lock *)
(* them until the transaction ends, and become visible to the others at    *)
(* COMMIT.                                                                 *)
(*                                                                         *)
(* A quantity sent in a request body is a JSON number; the model keeps it  *)
(* in tenths (17 is 1.7) so that parseInt and the INT columns can be       *)
(* modelled by what they do.  Stored quantities are whole numbers.         *)
(***************************************************************************)
EXTENDS Integers, FiniteSets, Sequences, TLC

VARIABLES
    parts,           \* Spare_Part, committed rows: Name -> [Category, Quantity, UnitPrice]
    stockIn,         \* Stock_In, committed rows: StockInID -> row
    stockOut,        \* Stock_Out, committed rows: StockOutID -> row
    nextStockInID,   \* AUTO_INCREMENT of Stock_In
    nextStockOutID,  \* AUTO_INCREMENT of Stock_Out
    totals,          \* the STORED generated columns: [part: Name -> TotalPrice,
                     \*                                 out: StockOutID -> StockOutTotalPrice]
    session,         \* req.session of the client: [user: is a user logged in,
                     \*   last (history): the last of successful login / logout]
    checkedOut,      \* the pool: number of connections handed out and not released
    req,             \* the requests in flight, one per slot
    answered,        \* history: the request answered last since the last arrival
    created,         \* history: Name -> the Quantity stored when the part was created
    arrivals         \* history: number of requests received so far

db == <<parts, stockIn, stockOut, totals>>
vars == <<parts, stockIn, stockOut, totals, nextStockInID, nextStockOutID, session, checkedOut, req, answered, created, arrivals>>

----------------------------------------------------------------------------
(* Bounds of the model *)

MaxRequests == 4
MaxConcRequests == 3
MaxInFlight == 2
MaxQuantity == 2
MaxMovementId == 2
MaxCatalogRequests == 4

Slots == 1..MaxInFlight
Names == {"Filter"}
Dates == {"2025-01-01", "2025-01-02"}
UnitPrices == {0, 500}
MovementIds == 1..MaxMovementId

\* A whole number n as a JSON number of the request body (tenths).
Num(n) == n * 10

\* The quantities a client of the typed interface sends: whole numbers,
\* among them 0 for the validation path.
WholeQuantities == {Num(n) : n \in 0..MaxQuantity}

----------------------------------------------------------------------------
(* Conversions *)

\* parseInt(x) of a JSON number: the digits before the decimal point.
ParseInt(v) == IF v >= 0 THEN v \div 10 ELSE -((-v) \div 10)

\* A number stored into an INT column: MySQL rounds to the nearest integer
\* (a tie goes to the even one for a double).
ToIntColumn(v) ==
    LET a == IF v >= 0 THEN v ELSE -v
        t == a \div 10
        f == a % 10
        m == IF f < 5 THEN t ELSE IF f > 5 THEN t + 1 ELSE IF t % 2 = 0 THEN t ELSE t + 1
    IN  IF v >= 0 THEN m ELSE -m

\* JavaScript's !x for a number and for a string.
FalsyNum(v) == v = 0
FalsyStr(s) == s = ""

Put(f, k, v) == [x \in DOMAIN f \cup {k} |-> IF x = k THEN v ELSE f[x]]
Drop(f, k) == [x \in DOMAIN f \ {k} |-> f[x]]

----------------------------------------------------------------------------
(* Requests *)

NoRows == [x \in {} |-> 0]

CatalogKinds == {"createPart", "updatePart", "deletePart", "getPart"}

MovementKinds == {"createStockIn", "updateStockIn", "deleteStockIn",
                  "createStockOut", "updateStockOut", "deleteStockOut"}

\* The table a movement handler writes.
Table(kind) == IF kind \in {"createStockIn", "updateStockIn", "deleteStockIn"}
               THEN "Stock_In" ELSE "Stock_Out"

\* A request as the handler holds it: req.body / req.params (category is
\* sent to the catalog handlers only; bodyName is a sparePartName sent in
\* the body of a movement update, which the handler does not read), the handler's
\* constants, the rows its transaction has written and not yet committed
\* (wMov, wPart), the response (status, error, and result, the data of a
\* listing or a report) and the state its transaction is left in (txn).  affected tells whether the statement of a
\* catalog request met a row.  fault, failedAt and pre are history: whether
\* a statement threw for a reason outside the request, the step
\* at which a statement threw and, for an observed request, the committed
\* tables when the request arrived.
NewRequest(kind, name, quantity, unitPrice, date, id) ==
    [kind |-> kind, pc |-> "start",
     name |-> name, quantity |-> quantity, unitPrice |-> unitPrice, date |-> date, id |-> id,
     category |-> "", bodyName |-> "",
     found |-> FALSE, oldQuantity |-> 0, snapQuantity |-> 0,
     currentQuantity |-> 0, newQuantity |-> 0,
     wMov |-> "none", movId |-> 0, wPart |-> FALSE,
     status |-> 0, error |-> "none", txn |-> "none", failedAt |-> "none",
     affected |-> FALSE, fault |-> FALSE, result |-> NoRows,
     observed |-> FALSE,
     pre |-> [parts |-> NoRows, stockIn |-> NoRows, stockOut |-> NoRows]]

NoRequest == [NewRequest("none", "", 0, 0, "", 0) EXCEPT !.pc = "idle"]

\* The requests a client may send: quantities drawn from QS, unit prices of
\* a stock-out from PS, the date of a new movement from DS and the date of
\* an update from US.
MovementRequests(NS, QS, PS, DS, US) ==
    {NewRequest("createStockIn", n, q, 0, d, 0) : n \in NS, q \in QS, d \in DS}
    \cup {NewRequest("updateStockIn", "", q, 0, d, i) : q \in QS, d \in US, i \in MovementIds}
    \cup {NewRequest("deleteStockIn", "", 0, 0, "", i) : i \in MovementIds}
    \cup {NewRequest("createStockOut", n, q, p, d, 0) :
             n \in NS, q \in QS, p \in PS, d \in DS}
    \cup {NewRequest("updateStockOut", "", q, p, d, i) :
             q \in QS, p \in PS, d \in US, i \in MovementIds}
    \cup {NewRequest("deleteStockOut", "", 0, 0, "", i) : i \in MovementIds}

\* createPart(name, category, quantity, unitPrice)
NewPart(n, c, q, p) == [NewRequest("createPart", n, q, p, "", 0) EXCEPT !.category = c]

Requests(QS, PS, DS, US) ==
    {NewPart(n, "Engine", q, 500) : n \in Names, q \in QS}
    \cup MovementRequests(Names, QS, PS, DS, US)

\* The requests of the typed interface.
TypedRequests == Requests(WholeQuantities, UnitPrices, {"2025-01-01"}, Dates)

Free(s) == req[s].pc = "idle"
Active(s) == ~Free(s)

\* res.status(status).json({error}) on an early return: the finally block
\* releases the connection, the transaction is left as it is.
Respond(r, status, error) == [r EXCEPT !.pc = "done", !.status = status, !.error = error]

\* connection.beginTransaction()
Begun(r) == [r EXCEPT !.txn = "open"]

\* catch: connection.rollback(), then status 500.
RolledBack(r) ==
    [r EXCEPT !.pc = "done", !.status = 500, !.error = "StorageFailure",
              !.txn = "rolledback", !.failedAt = r.pc,
              !.wMov = "none", !.wPart = FALSE]

\* connection.commit() has made the writes visible; the success response.
Committed(r, status) ==
    [r EXCEPT !.pc = "done", !.status = status, !.error = "none",
              !.txn = "committed", !.wMov = "none", !.wPart = FALSE]

----------------------------------------------------------------------------
(* What the handlers compute *)

StockInMissing(r) == FalsyStr(r.name) \/ FalsyNum(r.quantity) \/ FalsyStr(r.date)
StockInNotPositive(r) == r.quantity <= 0
UpdateStockInMissing(r) == FalsyNum(r.quantity) \/ FalsyStr(r.date)

StockOutMissing(r) ==
    FalsyStr(r.name) \/ FalsyNum(r.quantity) \/ FalsyNum(r.unitPrice) \/ FalsyStr(r.date)
StockOutInvalid(r) == r.quantity <= 0 \/ r.unitPrice < 0
UpdateStockOutMissing(r) == FalsyNum(r.quantity) \/ FalsyNum(r.unitPrice) \/ FalsyStr(r.date)

\* Mutant: the quantity is overwritten with the movement's, not added to.
StockInNewQuantity_Overwrite(currentQuantity, stockInQuantity) ==
    ParseInt(stockInQuantity)

\* currentQuantity + parseInt(stockInQuantity)
StockInNewQuantity(currentQuantity, stockInQuantity) ==
    currentQuantity + ParseInt(stockInQuantity)

\* Mutant: only an empty part is refused.
InsufficientStock_OnlyEmpty(currentQuantity, stockOutQuantity) ==
    currentQuantity <= 0

\* currentQuantity < stockOutQuantity
InsufficientStock(currentQuantity, stockOutQuantity) ==
    Num(currentQuantity) < stockOutQuantity

\* Mutant: the stock-out adds, as the stock-in handler does.
StockOutNewQuantity_Adds(currentQuantity, stockOutQuantity) ==
    currentQuantity + ParseInt(stockOutQuantity)

\* currentQuantity - parseInt(stockOutQuantity)
StockOutNewQuantity(currentQuantity, stockOutQuantity) ==
    currentQuantity - ParseInt(stockOutQuantity)

\* Mutant: the difference is taken the other way round.
UpdateStockInNewQuantity_Reversed(currentSparePartQuantity, stockInQuantity, oldQuantity) ==
    currentSparePartQuantity + (oldQuantity - ParseInt(stockInQuantity))

\* quantityDifference = parseInt(stockInQuantity) - oldQuantity
UpdateStockInNewQuantity(currentSparePartQuantity, stockInQuantity, oldQuantity) ==
    currentSparePartQuantity + (ParseInt(stockInQuantity) - oldQuantity)

\* Mutant: the difference is taken as in the stock-in handler.
UpdateStockOutNewQuantity_AsStockIn(currentSparePartQuantity, stockOutQuantity, oldQuantity) ==
    currentSparePartQuantity + (ParseInt(stockOutQuantity) - oldQuantity)

UpdateStockOutNewQuantity_IgnoresOld(currentSparePartQuantity, stockOutQuantity, oldQuantity) ==
    currentSparePartQuantity - ParseInt(stockOutQuantity)

\* quantityDifference = oldQuantity - parseInt(stockOutQuantity)
UpdateStockOutNewQuantity(currentSparePartQuantity, stockOutQuantity, oldQuantity) ==
    currentSparePartQuantity + (oldQuantity - ParseInt(stockOutQuantity))

\* Mutant: deleting a stock-in adds its quantity.
DeleteStockInNewQuantity_Adds(currentQuantity, StockInQuantity) ==
    currentQuantity + StockInQuantity

DeleteStockInNewQuantity_KeepsQuantity(currentQuantity, StockInQuantity) ==
    currentQuantity

DeleteStockInNewQuantity(currentQuantity, StockInQuantity) ==
    currentQuantity - StockInQuantity

\* Mutant: deleting a stock-out takes its quantity away once more.
DeleteStockOutNewQuantity_Subtracts(currentQuantity, StockOutQuantity) ==
    currentQuantity - StockOutQuantity

DeleteStockOutNewQuantity(currentQuantity, StockOutQuantity) ==
    currentQuantity + StockOutQuantity

\* if (newQuantity < 0) of the update and delete handlers
WouldBeNegative(newQuantity) == newQuantity < 0

\* StockOutTotalPrice GENERATED ALWAYS AS (StockOutQuantity * StockOutUnitPrice)
StockOutTotalPrice(row) == row.StockOutQuantity * row.StockOutUnitPrice

\* TotalPrice GENERATED ALWAYS AS (Quantity * UnitPrice)
TotalPrice(row) == row.Quantity * row.UnitPrice

\* Mutant: the generated columns are computed when the row is inserted and
\* kept as stored when it is updated.
RegeneratedTotals_OnInsertOnly ==
    [part |-> [n \in DOMAIN parts' |->
                 IF n \in DOMAIN parts THEN totals.part[n] ELSE TotalPrice(parts'[n])],
     out |-> [i \in DOMAIN stockOut' |->
                IF i \in DOMAIN stockOut THEN totals.out[i]
                ELSE StockOutTotalPrice(stockOut'[i])]]

\* The stored generated columns after a statement: the storage engine
\* computes them for every row the statement inserts or updates; the
\* handlers' statements never name them.
RegeneratedTotals ==
    [part |-> [n \in DOMAIN parts' |->
                 IF n \in DOMAIN parts /\ parts'[n] = parts[n] THEN totals.part[n]
                 ELSE TotalPrice(parts'[n])],
     out |-> [i \in DOMAIN stockOut' |->
                IF i \in DOMAIN stockOut /\ stockOut'[i] = stockOut[i] THEN totals.out[i]
                ELSE StockOutTotalPrice(stockOut'[i])]]

----------------------------------------------------------------------------
(* The database: row locks of the transactions in flight *)

\* The INSERT of a movement checks its FOREIGN KEY under a shared lock on
\* the Spare_Part row, held until the transaction ends.
HoldsParentShared(t, n) == Active(t) /\ req[t].wMov = "ins" /\ req[t].name = n

\* UPDATE Spare_Part locks the row exclusively until the transaction ends.
HoldsPartExclusive(t, n) == Active(t) /\ req[t].wPart /\ req[t].name = n

\* UPDATE and DELETE of a movement lock its row until the transaction ends.
HoldsRow(t, table, id) ==
    Active(t) /\ req[t].wMov \in {"upd", "del"} /\ Table(req[t].kind) = table /\ req[t].id = id

CanLockShared(s, n) == \A t \in Slots \ {s} : ~HoldsPartExclusive(t, n)
CanLockExclusive(s, n) ==
    \A t \in Slots \ {s} : ~HoldsPartExclusive(t, n) /\ ~HoldsParentShared(t, n)
CanLockRow(s, table, id) == \A t \in Slots \ {s} : ~HoldsRow(t, table, id)

\* The Stock_In row a request writes.
StockInRow(r) ==
    [SparePartName |-> r.name, StockInQuantity |-> ToIntColumn(r.quantity),
     StockInDate |-> r.date]

\* Mutant: the unit price is looked up in the catalog.
StockOutRow_CatalogPrice(r) ==
    [SparePartName |-> r.name, StockOutQuantity |-> ToIntColumn(r.quantity),
     StockOutUnitPrice |-> IF r.name \in DOMAIN parts THEN parts[r.name].UnitPrice ELSE 0,
     StockOutDate |-> r.date]

\* The Stock_Out row a request writes.
StockOutRow(r) ==
    [SparePartName |-> r.name, StockOutQuantity |-> ToIntColumn(r.quantity),
     StockOutUnitPrice |-> r.unitPrice, StockOutDate |-> r.date]

UpdatedStockInRow_Reassigns(old, r) == [StockInRow(r) EXCEPT !.SparePartName = r.bodyName]

\* UPDATE Stock_In SET StockInQuantity = ?, StockInDate = ? WHERE StockInID = ?
UpdatedStockInRow(old, r) ==
    [old EXCEPT !.StockInQuantity = StockInRow(r).StockInQuantity,
                !.StockInDate = StockInRow(r).StockInDate]

\* UPDATE Stock_Out SET StockOutQuantity = ?, StockOutUnitPrice = ?,
\* StockOutDate = ? WHERE StockOutID = ?
UpdatedStockOutRow(old, r) ==
    [old EXCEPT !.StockOutQuantity = StockOutRow(r).StockOutQuantity,
                !.StockOutUnitPrice = StockOutRow(r).StockOutUnitPrice,
                !.StockOutDate = StockOutRow(r).StockOutDate]

\* The tables after COMMIT of the rows request r has written.
CommitStockIn(r) ==
    IF Table(r.kind) # "Stock_In" THEN stockIn
    ELSE CASE r.wMov = "ins" -> Put(stockIn, r.movId, StockInRow(r))
           [] r.wMov = "upd" -> [stockIn EXCEPT ![r.id] = UpdatedStockInRow(@, r)]
           [] r.wMov = "del" -> Drop(stockIn, r.id)
           [] OTHER -> stockIn

\* Mutant: the success response is sent without the stock-out change
\* having been committed.
CommitStockOut_Lost(r) == stockOut

CommitStockOut(r) ==
    IF Table(r.kind) # "Stock_Out" THEN stockOut
    ELSE CASE r.wMov = "ins" -> Put(stockOut, r.movId, StockOutRow(r))
           [] r.wMov = "upd" -> [stockOut EXCEPT ![r.id] = UpdatedStockOutRow(@, r)]
           [] r.wMov = "del" -> Drop(stockOut, r.id)
           [] OTHER -> stockOut

\* Mutant: the UPDATE of the quantity has no WHERE clause.
CommitParts_EveryPart(r) ==
    IF r.wPart THEN [n \in DOMAIN parts |-> [parts[n] EXCEPT !.Quantity = r.newQuantity]]
    ELSE parts

\* Mutant: the UPDATE adds the handler's change to the quantity it finds
\* (SET Quantity = Quantity + ?).
CommitParts_Relative(r) ==
    IF r.wPart
    THEN [parts EXCEPT ![r.name].Quantity = @ + (r.newQuantity - r.currentQuantity)]
    ELSE parts

CommitParts(r) ==
    IF r.wPart THEN [parts EXCEPT ![r.name].Quantity = r.newQuantity] ELSE parts

RolledBackTables_AutoCommitted(r) == <<CommitParts(r), CommitStockIn(r), CommitStockOut(r)>>

\* The tables after connection.rollback(): the rows request r has written
\* in its transaction are discarded.
RolledBackTables(r) == <<parts, stockIn, stockOut>>

----------------------------------------------------------------------------
(* Steps shared by the movement handlers *)

\* dbConfig.connectionLimit
connectionLimit == 10

\* The handler of r is inside the try block it enters once
\* pool.getConnection() has returned.
HoldsConnection(r) ==
    r.kind \in MovementKinds /\ r.pc \notin {"idle", "acquire", "rejected", "done"}

\* Mutant: connection.release() is the last statement of the try block,
\* after the commit.
Release_AfterCommit(r) == IF HoldsConnection(r) /\ r.pc = "commit" THEN 1 ELSE 0

\* finally { connection.release(); }: the number of connections the
\* handler of r returns to the pool when it leaves its try block.
Release(r) == IF HoldsConnection(r) THEN 1 ELSE 0

\* The response has been sent: the slot is free again.  The history keeps
\* the request if it is an observed one.
Finish(s, r) ==
    /\ req' = [req EXCEPT ![s] = NoRequest]
    /\ answered' = IF r.observed THEN r ELSE NoRequest
    /\ checkedOut' = checkedOut - Release(req[s])

\* The handler goes on to its next await.
Continue(s, r) ==
    /\ req' = [req EXCEPT ![s] = r]
    /\ UNCHANGED <<answered, checkedOut>>

\* The promise of the handler is rejected: the handler has left its try
\* block, no response is sent.
Abandon(s, r) ==
    /\ req' = [req EXCEPT ![s] = r]
    /\ checkedOut' = checkedOut - Release(req[s])
    /\ UNCHANGED answered

Step(s, r) ==
    IF r.pc = "done" THEN Finish(s, r)
    ELSE IF r.pc = "rejected" THEN Abandon(s, r)
    ELSE Continue(s, r)

\* UPDATE Spare_Part SET Quantity = ? WHERE Name = ?  with newQuantity:
\* waits for the row's lock; changes no row when the part is gone.
ExecUpdatePart(s, newQuantity) ==
    LET r == req[s] IN
    /\ r.name \in DOMAIN parts => CanLockExclusive(s, r.name)
    /\ req' = [req EXCEPT ![s] = [r EXCEPT !.newQuantity = newQuantity,
                                            !.wPart = (r.name \in DOMAIN parts),
                                            !.pc = "commit"]]
    /\ UNCHANGED <<db, nextStockInID, nextStockOutID, checkedOut, answered, created, arrivals, session>>

\* UPDATE or DELETE of the movement row id: waits for the row's lock;
\* changes no row when the movement is gone (affected: the affectedRows of
\* the result, which the handlers do not read).
ExecWriteRecord(s, rows, how) ==
    LET r == req[s] IN
    /\ r.id \in DOMAIN rows => CanLockRow(s, Table(r.kind), r.id)
    /\ req' = [req EXCEPT ![s] = [r EXCEPT !.wMov = IF r.id \in DOMAIN rows THEN how ELSE "none",
                                            !.affected = (r.id \in DOMAIN rows),
                                            !.pc = "updatePart"]]
    /\ UNCHANGED <<db, nextStockInID, nextStockOutID, checkedOut, answered, created, arrivals, session>>

\* await connection.commit(), then the success response with this status.
ExecCommit(s, status) ==
    LET r == req[s] IN
    /\ parts' = CommitParts(r)
    /\ stockIn' = CommitStockIn(r)
    /\ stockOut' = CommitStockOut(r)
    /\ totals' = RegeneratedTotals
    /\ Finish(s, Committed(r, status))
    /\ UNCHANGED <<nextStockInID, nextStockOutID, created, arrivals, session>>

\* A step that only changes the request.
Local(s, r) ==
    /\ Step(s, r)
    /\ UNCHANGED <<db, nextStockInID, nextStockOutID, created, arrivals, session>>

\* SELECT SparePartName, <quantity> FROM <table> WHERE <id> = ?, the first
\* read of the transaction, which fixes its snapshot: what the later
\* SELECT Quantity FROM Spare_Part will return is decided here.
ReadRecord(r, rows, quantities) ==
    IF r.id \notin DOMAIN rows THEN Respond(r, 404, "NotFound")
    ELSE [r EXCEPT !.found = TRUE,
                   !.name = rows[r.id].SparePartName,
                   !.oldQuantity = quantities[r.id],
                   !.snapQuantity = IF rows[r.id].SparePartName \in DOMAIN parts
                                    THEN parts[rows[r.id].SparePartName].Quantity ELSE 0,
                   !.pc = "selectPart"]

InQuantity == [i \in DOMAIN stockIn |-> stockIn[i].StockInQuantity]
OutQuantity == [i \in DOMAIN stockOut |-> stockOut[i].StockOutQuantity]

----------------------------------------------------------------------------
(* Initial state: the tables initializeDatabase creates, all empty *)

Init ==
    /\ parts = NoRows
    /\ stockIn = NoRows
    /\ stockOut = NoRows
    /\ totals = [part |-> NoRows, out |-> NoRows]
    /\ nextStockInID = 1
    /\ nextStockOutID = 1
    /\ session = [user |-> FALSE, last |-> "none"]
    /\ checkedOut = 0
    /\ req = [s \in Slots |-> NoRequest]
    /\ answered = NoRequest
    /\ created = NoRows
    /\ arrivals = 0

\* A request reaches its handler in slot s (for a movement handler,
\* pool.getConnection() has returned).  An observed request is kept in the
\* history, with the tables as they are now.
Arrive(s, rq, limit, observed) ==
    /\ arrivals < limit
    /\ Free(s)
    /\ rq.kind \in MovementKinds => checkedOut < connectionLimit
    /\ checkedOut' = checkedOut + (IF rq.kind \in MovementKinds THEN 1 ELSE 0)
    /\ req' = [req EXCEPT ![s] =
                 [rq EXCEPT !.pc = IF rq.kind \in MovementKinds THEN "begin" ELSE "start",
                            !.observed = observed,
                            !.pre = IF observed
                                    THEN [parts |-> parts, stockIn |-> stockIn,
                                          stockOut |-> stockOut]
                                    ELSE @]]
    /\ answered' = NoRequest
    /\ arrivals' = arrivals + 1
    /\ UNCHANGED <<db, nextStockInID, nextStockOutID, created, session>>

----------------------------------------------------------------------------
(* app.post('/api/spare-parts') *)

\* !name || !category (quantity and unit price are compared with undefined:
\* a 0 is not missing)
CreatePartMissing(r) == FalsyStr(r.name) \/ FalsyStr(r.category)

NameTaken_Never(n) == FALSE

\* SELECT Name FROM Spare_Part WHERE Name = ?: existingParts.length > 0
NameTaken(n) == n \in DOMAIN parts

CreatePartInvalid_RejectsZero(r) ==
    FalsyNum(r.quantity) \/ FalsyNum(r.unitPrice) \/ r.quantity < 0 \/ r.unitPrice < 0

\* quantity < 0 || unitPrice < 0
CreatePartInvalid(r) == r.quantity < 0 \/ r.unitPrice < 0

\* The Spare_Part row a catalog request writes.
SparePartRow(r) ==
    [Category |-> r.category, Quantity |-> ToIntColumn(r.quantity), UnitPrice |-> r.unitPrice]

CreatePart(s) ==
    LET r == req[s] IN
    /\ r.kind = "createPart"
    /\ \/ /\ r.pc = "start"
          /\ Local(s, IF CreatePartMissing(r) \/ CreatePartInvalid(r)
                      THEN Respond(r, 400, "InvalidInput")
                      ELSE [r EXCEPT !.pc = "check"])
       \/ /\ r.pc = "check"
          /\ Local(s, IF NameTaken(r.name) THEN Respond(r, 409, "Conflict")
                      ELSE [r EXCEPT !.pc = "insert"])
       \/ /\ r.pc = "insert"
          /\ IF r.name \in DOMAIN parts
             THEN \* duplicate PRIMARY KEY: the INSERT throws
                  /\ Finish(s, Respond([r EXCEPT !.failedAt = "insert"], 500, "StorageFailure"))
                  /\ UNCHANGED <<parts, created>>
             ELSE /\ parts' = Put(parts, r.name, SparePartRow(r))
                  /\ created' = Put(created, r.name, ToIntColumn(r.quantity))
                  /\ Finish(s, Respond(r, 201, "none"))
          /\ UNCHANGED <<stockIn, stockOut, nextStockInID, nextStockOutID, arrivals, session>>
          /\ totals' = RegeneratedTotals

(* app.put('/api/spare-parts/:name') *)

\* !category
UpdatePartMissing(r) == FalsyStr(r.category)

UpdatePartInvalid(r) == r.quantity < 0 \/ r.unitPrice < 0

UpdatePart(s) ==
    LET r == req[s] IN
    /\ r.kind = "updatePart"
    /\ \/ /\ r.pc = "start"
          /\ Local(s, IF r.name \notin DOMAIN parts THEN Respond(r, 404, "NotFound")
                      ELSE IF UpdatePartMissing(r) \/ UpdatePartInvalid(r)
                      THEN Respond(r, 400, "InvalidInput")
                      ELSE [r EXCEPT !.found = TRUE, !.pc = "write"])
       \/ /\ r.pc = "write"
          \* UPDATE Spare_Part SET Category = ?, Quantity = ?, UnitPrice = ?
          \* WHERE Name = ?: waits for the row's lock, changes no row when
          \* the part is gone, and is committed at once.
          /\ r.name \in DOMAIN parts => CanLockExclusive(s, r.name)
          /\ parts' = IF r.name \in DOMAIN parts
                      THEN [parts EXCEPT ![r.name] = SparePartRow(r)] ELSE parts
          /\ Finish(s, Respond([r EXCEPT !.affected = (r.name \in DOMAIN parts)], 200, "none"))
          /\ UNCHANGED <<stockIn, stockOut, nextStockInID, nextStockOutID, created, arrivals, session>>
          /\ totals' = RegeneratedTotals

(* app.delete('/api/spare-parts/:name') *)

Cascade_None(rows, n) == rows

\* FOREIGN KEY (SparePartName) REFERENCES Spare_Part(Name) ON DELETE CASCADE:
\* the rows left when part n is deleted.
Cascade(rows, n) == [i \in {j \in DOMAIN rows : rows[j].SparePartName # n} |-> rows[i]]

DeletePart(s) ==
    LET r == req[s] IN
    /\ r.kind = "deletePart"
    /\ \/ /\ r.pc = "start"
          /\ Local(s, IF r.name \notin DOMAIN parts THEN Respond(r, 404, "NotFound")
                      ELSE [r EXCEPT !.found = TRUE, !.pc = "write"])
       \/ /\ r.pc = "write"
          \* DELETE FROM Spare_Part WHERE Name = ?: waits for the locks on the
          \* row and on its movements, deletes no row when the part is gone,
          \* and is committed at once together with the cascade.
          /\ r.name \in DOMAIN parts =>
                /\ CanLockExclusive(s, r.name)
                /\ \A i \in DOMAIN stockIn :
                      stockIn[i].SparePartName = r.name => CanLockRow(s, "Stock_In", i)
                /\ \A i \in DOMAIN stockOut :
                      stockOut[i].SparePartName = r.name => CanLockRow(s, "Stock_Out", i)
          /\ parts' = IF r.name \in DOMAIN parts THEN Drop(parts, r.name) ELSE parts
          /\ stockIn' = IF r.name \in DOMAIN parts THEN Cascade(stockIn, r.name) ELSE stockIn
          /\ stockOut' = IF r.name \in DOMAIN parts THEN Cascade(stockOut, r.name) ELSE stockOut
          /\ totals' = RegeneratedTotals
          /\ created' = IF r.name \in DOMAIN parts THEN Drop(created, r.name) ELSE created
          /\ Finish(s, Respond([r EXCEPT !.affected = (r.name \in DOMAIN parts)], 200, "none"))
          /\ UNCHANGED <<nextStockInID, nextStockOutID, arrivals, session>>

(* app.get('/api/spare-parts/:name') *)

GetPart(s) ==
    LET r == req[s] IN
    /\ r.kind = "getPart"
    /\ r.pc = "start"
    /\ Local(s, IF r.name \notin DOMAIN parts THEN Respond(r, 404, "NotFound")
                ELSE Respond([r EXCEPT !.found = TRUE, !.affected = TRUE,
                                       !.category = parts[r.name].Category,
                                       !.currentQuantity = parts[r.name].Quantity,
                                       !.unitPrice = parts[r.name].UnitPrice],
                             200, "none"))

\* A statement of a catalog handler throws: the catch block answers 500.
CatalogFailure(s) ==
    /\ req[s].kind \in CatalogKinds
    /\ Active(s)
    /\ Local(s, Respond([req[s] EXCEPT !.fault = TRUE, !.failedAt = req[s].pc],
                        500, "StorageFailure"))

----------------------------------------------------------------------------
(* app.post('/api/stock-in') *)

CreateStockIn(s) ==
    LET r == req[s] IN
    /\ r.kind = "createStockIn"
    /\ \/ /\ r.pc = "begin"
          /\ Local(s, IF StockInMissing(r) \/ StockInNotPositive(r)
                      THEN Respond(Begun(r), 400, "InvalidInput")
                      ELSE [Begun(r) EXCEPT !.pc = "selectPart"])
       \/ /\ r.pc = "selectPart"
          /\ Local(s, IF r.name \notin DOMAIN parts THEN Respond(r, 404, "NotFound")
                      ELSE [r EXCEPT !.found = TRUE,
                                     !.currentQuantity = parts[r.name].Quantity,
                                     !.pc = "insert"])
       \/ /\ r.pc = "insert"
          /\ CanLockShared(s, r.name)
          /\ IF r.name \in DOMAIN parts
             THEN /\ Continue(s, [r EXCEPT !.wMov = "ins", !.movId = nextStockInID,
                                                !.pc = "updatePart"])
                  /\ nextStockInID' = nextStockInID + 1
             ELSE \* the FOREIGN KEY fails: the INSERT throws
                  /\ Finish(s, RolledBack(r))
                  /\ UNCHANGED nextStockInID
          /\ UNCHANGED <<db, nextStockOutID, created, arrivals, session>>
       \/ /\ r.pc = "updatePart"
          /\ ExecUpdatePart(s, StockInNewQuantity(r.currentQuantity, r.quantity))
       \/ /\ r.pc = "commit"
          /\ ExecCommit(s, 201)

(* app.put('/api/stock-in/:id') *)

UpdateStockIn(s) ==
    LET r == req[s] IN
    /\ r.kind = "updateStockIn"
    /\ \/ /\ r.pc = "begin"
          /\ Local(s, IF UpdateStockInMissing(r) \/ StockInNotPositive(r)
                      THEN Respond(Begun(r), 400, "InvalidInput")
                      ELSE [Begun(r) EXCEPT !.pc = "selectRec"])
       \/ /\ r.pc = "selectRec"
          /\ Local(s, ReadRecord(r, stockIn, InQuantity))
       \/ /\ r.pc = "selectPart"
          /\ Local(s, IF WouldBeNegative(UpdateStockInNewQuantity(r.snapQuantity, r.quantity,
                                                                  r.oldQuantity))
                      THEN Respond([r EXCEPT !.currentQuantity = r.snapQuantity],
                                   400, "InvalidOperation")
                      ELSE [r EXCEPT !.currentQuantity = r.snapQuantity, !.pc = "writeRec"])
       \/ /\ r.pc = "writeRec"
          /\ ExecWriteRecord(s, stockIn, "upd")
       \/ /\ r.pc = "updatePart"
          /\ ExecUpdatePart(s, UpdateStockInNewQuantity(r.currentQuantity, r.quantity,
                                                        r.oldQuantity))
       \/ /\ r.pc = "commit"
          /\ ExecCommit(s, 200)

(* app.delete('/api/stock-in/:id') *)

DeleteStockIn(s) ==
    LET r == req[s] IN
    /\ r.kind = "deleteStockIn"
    /\ \/ /\ r.pc = "begin"
          /\ Local(s, [Begun(r) EXCEPT !.pc = "selectRec"])
       \/ /\ r.pc = "selectRec"
          /\ Local(s, ReadRecord(r, stockIn, InQuantity))
       \/ /\ r.pc = "selectPart"
          /\ Local(s, IF WouldBeNegative(DeleteStockInNewQuantity(r.snapQuantity, r.oldQuantity))
                      THEN Respond([r EXCEPT !.currentQuantity = r.snapQuantity],
                                   400, "InvalidOperation")
                      ELSE [r EXCEPT !.currentQuantity = r.snapQuantity, !.pc = "writeRec"])
       \/ /\ r.pc = "writeRec"
          /\ ExecWriteRecord(s, stockIn, "del")
       \/ /\ r.pc = "updatePart"
          /\ ExecUpdatePart(s, DeleteStockInNewQuantity(r.currentQuantity, r.oldQuantity))
       \/ /\ r.pc = "commit"
          /\ ExecCommit(s, 200)

----------------------------------------------------------------------------
(* app.post('/api/stock-out') *)

CreateStockOut(s) ==
    LET r == req[s] IN
    /\ r.kind = "createStockOut"
    /\ \/ /\ r.pc = "begin"
          /\ Local(s, IF StockOutMissing(r) \/ StockOutInvalid(r)
                      THEN Respond(Begun(r), 400, "InvalidInput")
                      ELSE [Begun(r) EXCEPT !.pc = "selectPart"])
       \/ /\ r.pc = "selectPart"
          /\ Local(s, IF r.name \notin DOMAIN parts THEN Respond(r, 404, "NotFound")
                      ELSE IF InsufficientStock(parts[r.name].Quantity, r.quantity)
                      THEN Respond([r EXCEPT !.found = TRUE,
                                             !.currentQuantity = parts[r.name].Quantity],
                                   400, "InsufficientStock")
                      ELSE [r EXCEPT !.found = TRUE,
                                     !.currentQuantity = parts[r.name].Quantity,
                                     !.pc = "insert"])
       \/ /\ r.pc = "insert"
          /\ CanLockShared(s, r.name)
          /\ IF r.name \in DOMAIN parts
             THEN /\ Continue(s, [r EXCEPT !.wMov = "ins", !.movId = nextStockOutID,
                                                !.pc = "updatePart"])
                  /\ nextStockOutID' = nextStockOutID + 1
             ELSE \* the FOREIGN KEY fails: the INSERT throws
                  /\ Finish(s, RolledBack(r))
                  /\ UNCHANGED nextStockOutID
          /\ UNCHANGED <<db, nextStockInID, created, arrivals, session>>
       \/ /\ r.pc = "updatePart"
          /\ ExecUpdatePart(s, StockOutNewQuantity(r.currentQuantity, r.quantity))
       \/ /\ r.pc = "commit"
          /\ ExecCommit(s, 201)

(* app.put('/api/stock-out/:id') *)

UpdateStockOut(s) ==
    LET r == req[s] IN
    /\ r.kind = "updateStockOut"
    /\ \/ /\ r.pc = "begin"
          /\ Local(s, IF UpdateStockOutMissing(r) \/ StockOutInvalid(r)
                      THEN Respond(Begun(r), 400, "InvalidInput")
                      ELSE [Begun(r) EXCEPT !.pc = "selectRec"])
       \/ /\ r.pc = "selectRec"
          /\ Local(s, ReadRecord(r, stockOut, OutQuantity))
       \/ /\ r.pc = "selectPart"
          /\ Local(s, IF WouldBeNegative(UpdateStockOutNewQuantity(r.snapQuantity, r.quantity,
                                                                   r.oldQuantity))
                      THEN Respond([r EXCEPT !.currentQuantity = r.snapQuantity],
                                   400, "InvalidOperation")
                      ELSE [r EXCEPT !.currentQuantity = r.snapQuantity, !.pc = "writeRec"])
       \/ /\ r.pc = "writeRec"
          /\ ExecWriteRecord(s, stockOut, "upd")
       \/ /\ r.pc = "updatePart"
          /\ ExecUpdatePart(s, UpdateStockOutNewQuantity(r.currentQuantity, r.quantity,
                                                         r.oldQuantity))
       \/ /\ r.pc = "commit"
          /\ ExecCommit(s, 200)

(* app.delete('/api/stock-out/:id') *)

DeleteStockOut(s) ==
    LET r == req[s] IN
    /\ r.kind = "deleteStockOut"
    /\ \/ /\ r.pc = "begin"
          /\ Local(s, [Begun(r) EXCEPT !.pc = "selectRec"])
       \/ /\ r.pc = "selectRec"
          /\ Local(s, ReadRecord(r, stockOut, OutQuantity))
       \/ /\ r.pc = "selectPart"
          /\ Local(s, [r EXCEPT !.currentQuantity = r.snapQuantity, !.pc = "writeRec"])
       \/ /\ r.pc = "writeRec"
          /\ ExecWriteRecord(s, stockOut, "del")
       \/ /\ r.pc = "updatePart"
          /\ ExecUpdatePart(s, DeleteStockOutNewQuantity(r.currentQuantity, r.oldQuantity))
       \/ /\ r.pc = "commit"
          /\ ExecCommit(s, 200)

----------------------------------------------------------------------------
(* A statement of a movement handler throws (the connection is lost, a lock
   wait times out, the transaction is chosen as the victim of a deadlock):
   the catch block rolls back and answers 500. *)

StorageFailure(s) ==
    /\ req[s].kind \in MovementKinds
    /\ Active(s)
    /\ parts' = RolledBackTables(req[s])[1]
    /\ stockIn' = RolledBackTables(req[s])[2]
    /\ stockOut' = RolledBackTables(req[s])[3]
    /\ totals' = RegeneratedTotals
    /\ Finish(s, RolledBack([req[s] EXCEPT !.fault = TRUE]))
    /\ UNCHANGED <<nextStockInID, nextStockOutID, created, arrivals, session>>

----------------------------------------------------------------------------
(* Specifications *)

Handle(s) ==
    \/ CreatePart(s)
    \/ CreateStockIn(s)
    \/ UpdateStockIn(s)
    \/ DeleteStockIn(s)
    \/ CreateStockOut(s)
    \/ UpdateStockOut(s)
    \/ DeleteStockOut(s)
    \/ StorageFailure(s)

\* Requests executed one at a time: the next one arrives when the last
\* one has been answered.
Receive ==
    /\ \A t \in Slots : Free(t)
    /\ \E rq \in TypedRequests : Arrive(1, rq, MaxRequests, TRUE)

Next == Receive \/ Handle(1)

Spec == Init /\ [][Next]_vars

HandleCatalog(s) ==
    \/ UpdatePart(s)
    \/ DeletePart(s)
    \/ GetPart(s)
    \/ CatalogFailure(s)

\* The catalog and the ledger of two parts, requests executed one at a
\* time.  The catalog requests carry a valid, a zero, a negative-quantity and
\* a negative-price pair (quantity, unit price) and a category that may be
\* missing; the body of a movement update names a part as well; a stock-out
\* is sold at the catalog price of the parts or below it.
PartNames == {"Filter", "Gasket"}

CreateValues == {<<Num(1), 500>>, <<0, 0>>, <<Num(-1), 500>>, <<Num(1), -100>>}
UpdateValues == {<<Num(2), 700>>, <<0, 0>>, <<Num(-1), 500>>, <<Num(1), -100>>}

CatalogRequests ==
    {NewPart(n, c, v[1], v[2]) : n \in PartNames, c \in {"", "Engine"}, v \in CreateValues}
    \cup {[NewPart(n, c, v[1], v[2]) EXCEPT !.kind = "updatePart"] :
             n \in PartNames, c \in {"", "Brake"}, v \in UpdateValues}
    \cup {NewRequest("deletePart", n, 0, 0, "", 0) : n \in PartNames}
    \cup {NewRequest("getPart", n, 0, 0, "", 0) : n \in PartNames}

LedgerRequests ==
    {[rq EXCEPT !.bodyName = IF rq.kind \in {"updateStockIn", "updateStockOut"}
                             THEN "Gasket" ELSE ""] :
        rq \in MovementRequests(PartNames, {Num(1)}, {300, 500}, {"2025-01-01"}, {"2025-01-02"})}

CatalogReceive ==
    /\ \A t \in Slots : Free(t)
    /\ \E rq \in CatalogRequests \cup LedgerRequests : Arrive(1, rq, MaxCatalogRequests, TRUE)

CatalogNext == CatalogReceive \/ Handle(1) \/ HandleCatalog(1)

CatalogSpec == Init /\ [][CatalogNext]_vars

\* Concurrent movement requests: a movement request arrives whenever a slot
\* is free; the request that creates the part runs alone.
ConcRequests == Requests({Num(1), Num(MaxQuantity)}, {500}, {"2025-01-01"}, {"2025-01-01"})

ConcReceive ==
    \E s \in Slots :
        /\ \A t \in Slots : t < s => Active(t)
        /\ \A t \in Slots : req[t].kind # "createPart"
        /\ \E rq \in ConcRequests :
              /\ rq.kind = "createPart" => \A t \in Slots : Free(t)
              /\ Arrive(s, rq, MaxConcRequests, FALSE)

ConcNext == ConcReceive \/ \E s \in Slots : Handle(s)

ConcSpec == Init /\ [][ConcNext]_vars

\* Concurrent catalog and movement requests on one part: a request arrives
\* whenever a slot is free; the request that creates the part runs alone.
CatalogConcRequests ==
    {NewPart(n, "Engine", Num(1), 500) : n \in Names}
    \cup {[NewPart(n, "Brake", Num(2), 700) EXCEPT !.kind = "updatePart"] : n \in Names}
    \cup {NewRequest("deletePart", n, 0, 0, "", 0) : n \in Names}
    \cup {NewRequest("getPart", n, 0, 0, "", 0) : n \in Names}
    \cup MovementRequests(Names, {Num(1)}, {500}, {"2025-01-01"}, {"2025-01-01"})

CatalogConcReceive ==
    \E s \in Slots :
        /\ \A t \in Slots : t < s => Active(t)
        /\ \A t \in Slots : req[t].kind # "createPart"
        /\ \E rq \in CatalogConcRequests :
              /\ rq.kind = "createPart" => \A t \in Slots : Free(t)
              /\ Arrive(s, rq, MaxConcRequests, TRUE)

CatalogConcNext == CatalogConcReceive \/ \E s \in Slots : Handle(s) \/ HandleCatalog(s)

CatalogConcSpec == Init /\ [][CatalogConcNext]_vars

\* Concurrent movement requests on two parts: a movement request arrives
\* whenever a slot is free; a request that creates a part runs alone.
MaxTwoPartRequests == 5

TwoPartRequests ==
    {NewPart(n, "Engine", Num(1), 500) : n \in PartNames}
    \cup MovementRequests(PartNames, {Num(1)}, {500}, {"2025-01-01"}, {"2025-01-02"})

TwoPartReceive ==
    \E s \in Slots :
        /\ \A t \in Slots : t < s => Active(t)
        /\ \A t \in Slots : req[t].kind # "createPart"
        /\ \E rq \in TwoPartRequests :
              /\ rq.kind = "createPart" => \A t \in Slots : Free(t)
              /\ Arrive(s, rq, MaxTwoPartRequests, FALSE)

TwoPartNext == TwoPartReceive \/ \E s \in Slots : Handle(s)

TwoPartSpec == Init /\ [][TwoPartNext]_vars

\* The same movement deleted twice at once: the requests that create the
\* part and its movements run alone; a deletion arrives whenever a slot is
\* free and every request in flight is a deletion of the same movement.
MaxDeleteRequests == 5

DeleteRequests ==
    {rq \in Requests({Num(1), Num(MaxQuantity)}, {500}, {"2025-01-01"}, {"2025-01-01"}) :
        rq.kind \in {"createPart", "createStockIn", "createStockOut",
                     "deleteStockIn", "deleteStockOut"}}

DeleteReceive ==
    \E s \in Slots :
        /\ \A t \in Slots : t < s => Active(t)
        /\ \E rq \in DeleteRequests :
              /\ IF rq.kind \in {"deleteStockIn", "deleteStockOut"}
                 THEN \A t \in Slots : Active(t) => req[t].kind = rq.kind /\ req[t].id = rq.id
                 ELSE \A t \in Slots : Free(t)
              /\ Arrive(s, rq, MaxDeleteRequests, TRUE)

DeleteNext ==
    \/ DeleteReceive
    \/ \E s \in Slots : CreatePart(s)
    \/ \E s \in Slots : CreateStockIn(s)
    \/ \E s \in Slots : CreateStockOut(s)
    \/ \E s \in Slots : DeleteStockIn(s)
    \/ \E s \in Slots : DeleteStockOut(s)
    \/ \E s \in Slots : StorageFailure(s)

DeleteSpec == Init /\ [][DeleteNext]_vars

\* Concurrent requests to create parts: a createPart arrives whenever a
\* slot is free, also while another createPart of the same name is between
\* its existence check and its INSERT.
MaxCreateRequests == 4

CreateReceive ==
    \E s \in Slots :
        /\ \A t \in Slots : t < s => Active(t)
        /\ \E n \in PartNames, q \in {Num(1), Num(MaxQuantity)} :
              Arrive(s, NewPart(n, "Engine", q, 500), MaxCreateRequests, TRUE)

CreateNext ==
    \/ CreateReceive
    \/ \E s \in Slots : CreatePart(s)
    \/ \E s \in Slots : CatalogFailure(s)

CreateSpec == Init /\ [][CreateNext]_vars

\* The movement endpoints as HTTP delivers them: the quantity of a body is
\* any JSON number (0, 0.4, 1, 1.5, -1), the date may be missing.  Requests
\* are executed one at a time.
MaxRawRequests == 3

RawQuantities == {0, 4, Num(1), 15, Num(-1)}

RawRequests ==
    {NewPart(n, "Engine", Num(1), 500) : n \in Names}
    \cup {rq \in MovementRequests(Names, RawQuantities, {500}, {"", "2025-01-01"},
                                  {"", "2025-01-02"}) :
             rq.kind \notin {"deleteStockIn", "deleteStockOut"}}

RawReceive ==
    /\ \A t \in Slots : Free(t)
    /\ \E rq \in RawRequests : Arrive(1, rq, MaxRawRequests, TRUE)

RawNext ==
    \/ RawReceive
    \/ CreatePart(1)
    \/ CreateStockIn(1)
    \/ UpdateStockIn(1)
    \/ CreateStockOut(1)
    \/ UpdateStockOut(1)

RawSpec == Init /\ [][RawNext]_vars

----------------------------------------------------------------------------
(* The movement endpoints from the arrival of the request: the handler
   first awaits pool.getConnection(), outside its try block. *)

\* What becomes of the rejected promise of an async handler depends on the
\* router the server is built with, which the sources do not pin: it is
\* passed to the error-handling middleware, which answers 500, or nobody
\* handles it and the request gets no response.
Rejections == {"errorMiddleware", "unhandled"}

Rejected(r, outcome) ==
    IF outcome = "errorMiddleware"
    THEN Respond([r EXCEPT !.fault = TRUE, !.failedAt = r.pc], 500, "StorageFailure")
    ELSE [r EXCEPT !.fault = TRUE, !.failedAt = r.pc, !.pc = "rejected"]

\* const connection = await pool.getConnection(): a connection is granted,
\* or the promise is rejected (the database cannot be reached).
GetConnection(s) ==
    LET r == req[s] IN
    /\ r.kind \in MovementKinds /\ r.pc = "acquire"
    /\ \/ /\ checkedOut < connectionLimit
          /\ req' = [req EXCEPT ![s] = [r EXCEPT !.pc = "begin"]]
          /\ checkedOut' = checkedOut + 1
          /\ UNCHANGED <<db, nextStockInID, nextStockOutID, answered, created, arrivals, session>>
       \/ \E outcome \in Rejections : Local(s, Rejected(r, outcome))

\* A statement throws and, the connection being lost, connection.rollback()
\* in the catch block throws as well: the server has discarded the
\* transaction, finally releases the connection and the handler's promise
\* is rejected before res.status(500) is reached.
RollbackFailure(s) ==
    LET r == req[s] IN
    /\ r.kind \in MovementKinds /\ r.pc \notin {"idle", "acquire", "done", "rejected"}
    /\ \E outcome \in Rejections :
          Local(s, Rejected([r EXCEPT !.txn = "rolledback", !.wMov = "none", !.wPart = FALSE],
                            outcome))

\* A statement throws on the connection the handler holds, and the catch
\* block rolls back and answers 500.
LiveFailure(s) == req[s].pc \notin {"acquire", "rejected"} /\ StorageFailure(s)

MaxLiveRequests == 3

LiveRequests == Requests({Num(1)}, {500}, {"2025-01-01"}, {"2025-01-01"})

\* A request arrives: the handler of a movement request is at its first await.
LiveReceive ==
    /\ \A t \in Slots : Free(t)
    /\ arrivals < MaxLiveRequests
    /\ \E rq \in LiveRequests :
          /\ req' = [req EXCEPT ![1] =
                       [rq EXCEPT !.pc = IF rq.kind \in MovementKinds THEN "acquire" ELSE "start",
                                  !.observed = TRUE,
                                  !.pre = [parts |-> parts, stockIn |-> stockIn,
                                           stockOut |-> stockOut]]]
          /\ answered' = NoRequest
          /\ arrivals' = arrivals + 1
          /\ UNCHANGED <<db, nextStockInID, nextStockOutID, checkedOut, created, session>>

\* The continuation of the handler after an await whose promise has settled.
Proceed(s) ==
    \/ GetConnection(s)
    \/ CreatePart(s)
    \/ CreateStockIn(s)
    \/ UpdateStockIn(s)
    \/ DeleteStockIn(s)
    \/ CreateStockOut(s)
    \/ UpdateStockOut(s)
    \/ DeleteStockOut(s)

LiveNext ==
    \/ LiveReceive
    \/ Proceed(1)
    \/ LiveFailure(1)
    \/ RollbackFailure(1)

\* The storage layer answers every statement and the event loop runs every
\* continuation whose promise has settled: a handler that can go on does.
LiveSpec == Init /\ [][LiveNext]_vars /\ WF_vars(Proceed(1))

----------------------------------------------------------------------------
(* The ledger totals of a part *)

RECURSIVE Sum(_, _)
Sum(f, S) == IF S = {} THEN 0
             ELSE LET x == CHOOSE x \in S : TRUE IN f[x] + Sum(f, S \ {x})

\* SUM(StockInQuantity) ... GROUP BY SparePartName, 0 when there is none
TotalStockIn(n) ==
    Sum(InQuantity,
        {i \in DOMAIN stockIn : stockIn[i].SparePartName = n})

\* SUM(StockOutQuantity) ... GROUP BY SparePartName, 0 when there is none
TotalStockOut(n) ==
    Sum(OutQuantity,
        {i \in DOMAIN stockOut : stockOut[i].SparePartName = n})

\* The quantity the movement history of part n accounts for.
Reconciled(n) == parts[n].Quantity = created[n] + TotalStockIn(n) - TotalStockOut(n)

NoRequestInFlight == \A t \in Slots : Free(t)

----------------------------------------------------------------------------
(* The listings and the reports.  Each handler runs one SELECT on a
   connection of the pool (autocommit) and answers with what it computed. *)

ReadKinds == {"listParts", "listStockIn", "listStockOut", "getStockOut",
              "dailyStockOutReport", "stockStatusReport"}

\* less than 10 units
LowStockThreshold == 10

\* ORDER BY sp.Name
NameOrder == <<"Filter", "Gasket">>

\* A value of the handler's JavaScript: a number, or a string of decimal
\* digits.
JsNumber(n) == [isStr |-> FALSE, str |-> <<>>, num |-> n]
JsString(digits) == [isStr |-> TRUE, str |-> digits, num |-> 0]

\* The decimal digits of n >= 0, and the number a string of digits denotes.
RECURSIVE Digits(_)
Digits(n) == IF n < 10 THEN <<n>> ELSE Append(Digits(n \div 10), n % 10)

RECURSIVE ParseDigits(_)
ParseDigits(str) ==
    IF str = <<>> THEN 0 ELSE ParseDigits(SubSeq(str, 1, Len(str) - 1)) * 10 + str[Len(str)]

\* SUM(...) of an INT column and COALESCE(SUM(...), 0) are DECIMAL values,
\* which the driver hands over as strings (dbConfig sets no decimalNumbers).
DecimalSum(n) == JsString(Digits(n))

ToNumber(v) == IF v.isStr THEN ParseDigits(v.str) ELSE v.num
ToStr(v) == IF v.isStr THEN v.str ELSE Digits(v.num)

\* a + b: concatenation as soon as one of the two is a string
JsPlus(a, b) ==
    IF a.isStr \/ b.isStr THEN JsString(ToStr(a) \o ToStr(b)) ELSE JsNumber(a.num + b.num)

\* a - b: both are converted to numbers
JsMinus(a, b) == JsNumber(ToNumber(a) - ToNumber(b))

\* Math.max(0, n)
MathMax0(n) == IF n > 0 THEN n ELSE 0

\* A DECIMAL(10, 2) value and x.toFixed(2): a string with two digits after
\* the point, kept as the number of hundredths; parseFloat of such a string.
ToFixed2(x) == x * 100
ParseFloat(c) == c \div 100

\* rows.reduce((sum, row) => sum + row.<field>, 0) over the values of the
\* field, in the order of the rows.
RECURSIVE Reduce(_, _)
Reduce(values, sum) ==
    IF values = <<>> THEN sum ELSE Reduce(Tail(values), JsPlus(sum, Head(values)))

\* Mutant: the value of one unit.
TotalPriceOf_PerUnit(currentQuantity, UnitPrice) == UnitPrice

\* currentQuantity * parseFloat(row.UnitPrice || 0)
TotalPriceOf(currentQuantity, UnitPrice) == currentQuantity * ParseFloat(ToFixed2(UnitPrice))

\* One row of the stock status query, processed.
StatusRow(n) ==
    LET currentQuantity == MathMax0(parts[n].Quantity)
        totalPrice == TotalPriceOf(currentQuantity, parts[n].UnitPrice)
        out == DecimalSum(TotalStockOut(n))
        in == DecimalSum(TotalStockIn(n))
        initialQuantity == JsMinus(JsPlus(JsNumber(currentQuantity), out), in)
    IN  [SparePartName |-> n, Category |-> parts[n].Category,
         UnitPrice |-> ToFixed2(parts[n].UnitPrice),
         TotalStockIn |-> in, TotalStockOut |-> out,
         InitialQuantity |-> MathMax0(initialQuantity.num),
         CurrentQuantity |-> currentQuantity,
         TotalPrice |-> ToFixed2(totalPrice)]

\* The names of the catalog in the order of the query.
RECURSIVE NamesInOrder(_)
NamesInOrder(order) ==
    IF order = <<>> THEN <<>>
    ELSE (IF Head(order) \in DOMAIN parts THEN <<Head(order)>> ELSE <<>>)
            \o NamesInOrder(Tail(order))

StatusRows == [k \in DOMAIN NamesInOrder(NameOrder) |-> StatusRow(NamesInOrder(NameOrder)[k])]

\* Mutant: a part at the threshold is flagged as well.
LowStock_Inclusive(row) == row.CurrentQuantity <= LowStockThreshold

\* row.CurrentQuantity < 10
LowStock(row) == row.CurrentQuantity < LowStockThreshold

\* getStockStatus(quantity) of the frontend, with its default thresholds
GetStockStatus(quantity) ==
    IF quantity < LowStockThreshold THEN "Low Stock"
    ELSE IF quantity < 2 * LowStockThreshold THEN "Medium" ELSE "In Stock"

\* The data of the stock status report.
StockStatus ==
    LET rows == StatusRows
        lowStockItems == SelectSeq(rows, LowStock)
    IN  [sparePartStatus |-> rows,
         summary |->
            [totalParts |-> Len(rows),
             totalCurrentQuantity |->
                Reduce([k \in DOMAIN rows |-> JsNumber(rows[k].CurrentQuantity)], JsNumber(0)).num,
             totalCurrentValue |->
                ToFixed2(Reduce([k \in DOMAIN rows |-> JsNumber(ParseFloat(rows[k].TotalPrice))],
                                JsNumber(0)).num),
             totalStockIn |-> Reduce([k \in DOMAIN rows |-> rows[k].TotalStockIn], JsNumber(0)),
             totalStockOut |-> Reduce([k \in DOMAIN rows |-> rows[k].TotalStockOut], JsNumber(0)),
             lowStockItemsCount |-> Len(lowStockItems)],
         lowStockItems |-> lowStockItems]

\* Mutant: the report of every day.
DailyRecords_EveryDate(reportDate) == DOMAIN stockOut

\* WHERE DATE(so.StockOutDate) = ?
DailyRecords(reportDate) == {i \in DOMAIN stockOut : stockOut[i].StockOutDate = reportDate}

\* parseFloat(row.StockOutTotalPrice) of every stock-out
OutTotalPrice ==
    [i \in DOMAIN stockOut |-> ParseFloat(ToFixed2(totals.out[i]))]

\* The data of the daily stock-out report of reportDate.
DailyStockOut(reportDate) ==
    LET ids == DailyRecords(reportDate)
    IN  [reportDate |-> reportDate,
         records |-> [i \in ids |-> stockOut[i]],
         summary |-> [totalRecords |-> Cardinality(ids),
                      totalQuantity |-> Sum(OutQuantity, ids),
                      totalValue |-> ToFixed2(Sum(OutTotalPrice, ids))]]

\* Mutant: the report stores the quantity it has reconstructed.
TablesAfterSelect_WritesBack(r) ==
    <<IF r.kind = "stockStatusReport"
      THEN [n \in DOMAIN parts |-> [parts[n] EXCEPT !.Quantity = StatusRow(n).InitialQuantity]]
      ELSE parts,
      stockIn, stockOut>>

\* The tables after a SELECT.
TablesAfterSelect(r) == <<parts, stockIn, stockOut>>

\* The SELECT has returned: the handler answers.
Select(s, r) ==
    /\ parts' = TablesAfterSelect(r)[1]
    /\ stockIn' = TablesAfterSelect(r)[2]
    /\ stockOut' = TablesAfterSelect(r)[3]
    /\ totals' = RegeneratedTotals
    /\ Finish(s, r)
    /\ UNCHANGED <<nextStockInID, nextStockOutID, created, arrivals, session>>

(* app.get('/api/spare-parts') *)
ListParts(s) ==
    LET r == req[s] IN
    /\ r.kind = "listParts" /\ r.pc = "start"
    /\ Select(s, Respond([r EXCEPT !.result = parts], 200, "none"))

(* app.get('/api/stock-in') *)
ListStockIn(s) ==
    LET r == req[s] IN
    /\ r.kind = "listStockIn" /\ r.pc = "start"
    /\ Select(s, Respond([r EXCEPT !.result = stockIn], 200, "none"))

(* app.get('/api/stock-out') *)
ListStockOut(s) ==
    LET r == req[s] IN
    /\ r.kind = "listStockOut" /\ r.pc = "start"
    /\ Select(s, Respond([r EXCEPT !.result = stockOut], 200, "none"))

(* app.get('/api/stock-out/:id') *)
GetStockOut(s) ==
    LET r == req[s] IN
    /\ r.kind = "getStockOut" /\ r.pc = "start"
    /\ Select(s, IF r.id \notin DOMAIN stockOut THEN Respond(r, 404, "NotFound")
                 ELSE Respond([r EXCEPT !.found = TRUE, !.result = stockOut[r.id]], 200, "none"))

(* app.get('/api/reports/daily-stock-out'): date || the current date *)
DailyStockOutReport(s) ==
    LET r == req[s] IN
    /\ r.kind = "dailyStockOutReport" /\ r.pc = "start"
    /\ \E today \in Dates :
          Select(s, Respond([r EXCEPT !.result =
                                DailyStockOut(IF FalsyStr(r.date) THEN today ELSE r.date)],
                            200, "none"))

(* app.get('/api/reports/stock-status') *)
StockStatusReport(s) ==
    LET r == req[s] IN
    /\ r.kind = "stockStatusReport" /\ r.pc = "start"
    /\ Select(s, Respond([r EXCEPT !.result = StockStatus], 200, "none"))

\* The SELECT of a listing or a report throws: the catch block answers 500.
ReadFailure(s) ==
    /\ req[s].kind \in ReadKinds
    /\ Active(s)
    /\ Local(s, Respond([req[s] EXCEPT !.fault = TRUE, !.failedAt = req[s].pc],
                        500, "StorageFailure"))

HandleRead(s) ==
    \/ GetPart(s)
    \/ ListParts(s)
    \/ ListStockIn(s)
    \/ ListStockOut(s)
    \/ GetStockOut(s)
    \/ DailyStockOutReport(s)
    \/ StockStatusReport(s)
    \/ ReadFailure(s)

\* The catalog and the ledger under report: parts created with no stock,
\* just below and at the low-stock threshold, stock-ins and stock-outs on two
\* days, and every listing and report, executed one at a time.
MaxReportRequests == 5

ReportRequests ==
    {NewPart(n, "Engine", Num(q), 500) : n \in PartNames, q \in {0, 9, 10}}
    \cup {NewRequest("createStockIn", n, Num(1), 0, "2025-01-01", 0) : n \in PartNames}
    \cup {NewRequest("createStockOut", n, Num(4), 300, d, 0) : n \in PartNames, d \in Dates}
    \cup {NewRequest("getPart", n, 0, 0, "", 0) : n \in PartNames}
    \cup {NewRequest(k, "", 0, 0, "", 0) :
             k \in {"listParts", "listStockIn", "listStockOut", "stockStatusReport"}}
    \cup {NewRequest("getStockOut", "", 0, 0, "", i) : i \in MovementIds}
    \cup {NewRequest("dailyStockOutReport", "", 0, 0, d, 0) : d \in Dates \cup {""}}

ReportReceive ==
    /\ \A t \in Slots : Free(t)
    /\ \E rq \in ReportRequests : Arrive(1, rq, MaxReportRequests, TRUE)

ReportNext ==
    \/ ReportReceive
    \/ CreatePart(1)
    \/ CreateStockIn(1)
    \/ CreateStockOut(1)
    \/ HandleRead(1)

ReportSpec == Init /\ [][ReportNext]_vars

----------------------------------------------------------------------------
(* The session of one client and the routes behind requireAuth *)

\* The Users table as initializeDatabase leaves it: the default admin user
\* (bcrypt.compare against the stored hash is equality with the password).
Users == [admin |-> "admin123"]

\* The status of app.post('/api/auth/login').
LoginStatus(username, password) ==
    IF FalsyStr(username) \/ FalsyStr(password) THEN 400
    ELSE IF username \notin DOMAIN Users THEN 401
    ELSE IF Users[username] # password THEN 401
    ELSE 200

\* app.post('/api/auth/login'): req.session.user is set when the password
\* is the user's.
Login ==
    \E username \in {"", "admin", "guest"}, password \in {"", "admin123", "letmein"} :
        /\ session' = IF LoginStatus(username, password) = 200
                      THEN [user |-> TRUE, last |-> "login"]
                      ELSE session
        /\ UNCHANGED <<db, nextStockInID, nextStockOutID, checkedOut, req, answered,
                       created, arrivals>>

\* app.post('/api/auth/logout'): req.session.destroy()
Logout ==
    /\ session' = [user |-> FALSE, last |-> "logout"]
    /\ UNCHANGED <<db, nextStockInID, nextStockOutID, checkedOut, req, answered,
                   created, arrivals>>

\* cookie.maxAge has passed since the session was last used: the store
\* drops the session.
Expire ==
    /\ session.user
    /\ session' = [session EXCEPT !.user = FALSE]
    /\ UNCHANGED <<db, nextStockInID, nextStockOutID, checkedOut, req, answered,
                   created, arrivals>>

\* Mutant: the middleware asks for a session, not for its user.
Authenticated_AnySession(sess) == TRUE

\* req.session && req.session.user
Authenticated(sess) == sess.user

MaxAuthRequests == 4

AuthRequests ==
    CatalogConcRequests
    \cup {NewRequest(k, "", 0, 0, "", 0) :
             k \in {"listParts", "listStockIn", "listStockOut", "stockStatusReport"}}
    \cup {NewRequest("getStockOut", "", 0, 0, "", 1),
          NewRequest("dailyStockOutReport", "", 0, 0, "2025-01-01", 0)}

\* requireAuth in front of the handler of request rq: next(), or 401
\* 'Authentication required' without calling the handler.
RequireAuth(rq) ==
    IF Authenticated(session)
    THEN Arrive(1, rq, MaxAuthRequests, TRUE)
    ELSE /\ arrivals < MaxAuthRequests
         /\ answered' = [Respond(rq, 401, "AuthenticationRequired")
                            EXCEPT !.observed = TRUE,
                                   !.pre = [parts |-> parts, stockIn |-> stockIn,
                                            stockOut |-> stockOut]]
         /\ arrivals' = arrivals + 1
         /\ UNCHANGED <<db, nextStockInID, nextStockOutID, checkedOut, req, created, session>>

\* The requests of the client arrive one at a time.
AuthNext ==
    \/ (\A t \in Slots : Free(t)) /\ \E rq \in AuthRequests : RequireAuth(rq)
    \/ Login
    \/ Logout
    \/ Expire
    \/ Handle(1)
    \/ HandleCatalog(1)
    \/ HandleRead(1)

AuthSpec == Init /\ [][AuthNext]_vars

----------------------------------------------------------------------------
(* Properties *)

\* C1: with requests executed one at a time, after each request has
\* completed (with success or with an error) the Quantity of every part is
\* the quantity it was created with, plus its stock-in quantities, minus its
\* stock-out quantities.
C1_QuantityReconciled ==
    NoRequestInFlight => \A n \in DOMAIN parts : Reconciled(n)

\* C1 witness: a stock-in has just been deleted from a part that also has a
\* stock-out.
C1_Witness ==
    /\ NoRequestInFlight
    /\ answered.kind = "deleteStockIn" /\ answered.status = 200
    /\ \E i \in DOMAIN stockOut : stockOut[i].SparePartName = answered.name

\* C2: the stored Quantity of every part is never negative, whatever the
\* interleaving of the steps of concurrent requests.
C2_QuantityNonNegative == \A n \in DOMAIN parts : parts[n].Quantity >= 0

\* C2 witness: a stock-out is about to write the quantity it computed from
\* what it read, while another stock-out, committed since, has left less
\* than it asks for.
C2_Witness ==
    \E t \in Slots :
        /\ req[t].kind = "createStockOut" /\ req[t].pc = "updatePart"
        /\ req[t].currentQuantity > parts[req[t].name].Quantity
        /\ Num(parts[req[t].name].Quantity) < req[t].quantity
        /\ \E i \in DOMAIN stockOut : stockOut[i].SparePartName = req[t].name

\* C3: once all the concurrent movement requests have completed, the
\* Quantity of every part is the quantity it was created with, plus its
\* committed stock-in quantities, minus its committed stock-out quantities.
C3_NoLostUpdate ==
    (\A t \in Slots : Free(t))
    => \A n \in DOMAIN parts :
          parts[n].Quantity - created[n] = TotalStockIn(n) - TotalStockOut(n)

----------------------------------------------------------------------------
(* The contract of one movement request, executed alone.  R is the request,
   R.pre the committed tables when it arrived.  A quantity of the interface
   is a whole number; the answer to a request that met a storage failure is
   not the contract's subject. *)

R == answered

Answered(kind) == R.pc = "done" /\ R.kind = kind /\ R.error # "StorageFailure"

WholePositive(q) == q > 0 /\ q % 10 = 0

TablesAsBefore ==
    /\ parts = R.pre.parts
    /\ stockIn = R.pre.stockIn
    /\ stockOut = R.pre.stockOut

\* parts is R.pre.parts with the Quantity of part n changed by d.
QuantityChangedBy(n, d) ==
    parts = [R.pre.parts EXCEPT ![n].Quantity = @ + d]

\* C4: a stock-out of more than the part holds fails with InsufficientStock
\* and leaves the part's quantity and the stock-out movements as they were.
C4_InsufficientStockRejected ==
    (/\ Answered("createStockOut")
     /\ R.name \in DOMAIN R.pre.parts
     /\ R.unitPrice >= 0 /\ R.date # ""
     /\ R.quantity > Num(R.pre.parts[R.name].Quantity))
    => (R.error = "InsufficientStock" /\ parts = R.pre.parts /\ stockOut = R.pre.stockOut)

\* C5: a stock-out of q > 0 at a price > 0 from a part that holds at least q
\* succeeds, adds exactly one movement (q, price, total q * price) and
\* takes exactly q from the part's quantity.
C5_StockOutApplied ==
    (/\ Answered("createStockOut")
     /\ R.name \in DOMAIN R.pre.parts
     /\ WholePositive(R.quantity) /\ R.unitPrice > 0 /\ R.date # ""
     /\ R.quantity <= Num(R.pre.parts[R.name].Quantity))
    => /\ R.status = 201
       /\ \E i \in DOMAIN stockOut \ DOMAIN R.pre.stockOut :
             /\ stockOut = Put(R.pre.stockOut, i,
                               [SparePartName |-> R.name,
                                StockOutQuantity |-> R.quantity \div 10,
                                StockOutUnitPrice |-> R.unitPrice,
                                StockOutDate |-> R.date])
             /\ StockOutTotalPrice(stockOut[i]) = (R.quantity \div 10) * R.unitPrice
       /\ QuantityChangedBy(R.name, -(R.quantity \div 10))
       /\ stockIn = R.pre.stockIn

\* C5 witness: a stock-out has succeeded and left stock behind.
C5_Witness ==
    /\ Answered("createStockOut") /\ R.status = 201
    /\ parts[R.name].Quantity > 0

C7_UpdateStockIn ==
    (/\ Answered("updateStockIn")
     /\ R.id \in DOMAIN R.pre.stockIn
     /\ WholePositive(R.quantity) /\ R.date # "")
    => LET old == R.pre.stockIn[R.id]
           delta == (R.quantity \div 10) - old.StockInQuantity
           candidate == R.pre.parts[old.SparePartName].Quantity + delta
       IN  IF candidate < 0
           THEN R.error = "InvalidOperation" /\ TablesAsBefore
           ELSE /\ R.status = 200
                /\ stockIn = [R.pre.stockIn EXCEPT ![R.id] =
                                [SparePartName |-> old.SparePartName,
                                 StockInQuantity |-> R.quantity \div 10,
                                 StockInDate |-> R.date]]
                /\ QuantityChangedBy(old.SparePartName, delta)
                /\ parts[old.SparePartName].Quantity = candidate
                /\ stockOut = R.pre.stockOut

\* C7 witness: an update that would have made the quantity negative has
\* been refused.
C7_Witness ==
    /\ Answered("updateStockIn") /\ R.error = "InvalidOperation"
    /\ R.id \in DOMAIN stockIn

\* C8: an update of an existing stock-out to newQ > 0 fails with
\* InvalidOperation and changes nothing when quantity + (oldQ - newQ) < 0;
\* otherwise the movement takes the new quantity, unit price and date and
\* the part's quantity becomes quantity + (oldQ - newQ).
C8_UpdateStockOut ==
    (/\ Answered("updateStockOut")
     /\ R.id \in DOMAIN R.pre.stockOut
     /\ WholePositive(R.quantity) /\ R.unitPrice >= 0 /\ R.date # "")
    => LET old == R.pre.stockOut[R.id]
           delta == old.StockOutQuantity - (R.quantity \div 10)
           candidate == R.pre.parts[old.SparePartName].Quantity + delta
       IN  IF candidate < 0
           THEN R.error = "InvalidOperation" /\ TablesAsBefore
           ELSE /\ R.status = 200
                /\ stockOut = [R.pre.stockOut EXCEPT ![R.id] =
                                 [SparePartName |-> old.SparePartName,
                                  StockOutQuantity |-> R.quantity \div 10,
                                  StockOutUnitPrice |-> R.unitPrice,
                                  StockOutDate |-> R.date]]
                /\ QuantityChangedBy(old.SparePartName, delta)
                /\ stockIn = R.pre.stockIn

\* C9: the deletion of an existing stock-in fails with InvalidOperation and
\* changes nothing when quantity - movement quantity < 0; otherwise the
\* movement is removed and the part's quantity drops by its quantity.
C9_DeleteStockIn ==
    (Answered("deleteStockIn") /\ R.id \in DOMAIN R.pre.stockIn)
    => LET old == R.pre.stockIn[R.id]
       IN  IF R.pre.parts[old.SparePartName].Quantity - old.StockInQuantity < 0
           THEN R.error = "InvalidOperation" /\ TablesAsBefore
           ELSE /\ R.status = 200
                /\ stockIn = Drop(R.pre.stockIn, R.id)
                /\ QuantityChangedBy(old.SparePartName, -old.StockInQuantity)
                /\ stockOut = R.pre.stockOut

\* C9 witness: the deletion of a stock-in whose quantity has since been
\* sold has been refused.
C9_Witness ==
    /\ Answered("deleteStockIn") /\ R.error = "InvalidOperation"
    /\ R.id \in DOMAIN stockIn

----------------------------------------------------------------------------
(* An update against the deletion of the movement followed by the creation
   of a movement of the new quantity, both executed one after the other on
   the tables (p, rows) the update found. *)

\* The quantities of the movements of part n, each with the number of
\* movements that have it.
QuantityBag(rows, quantities, n) ==
    LET ids == {i \in DOMAIN rows : rows[i].SparePartName = n}
    IN  [v \in {quantities[i] : i \in ids} |-> Cardinality({i \in ids : quantities[i] = v})]

\* deleteStockIn(id), then createStockIn(part of id, quantity, date).
DeleteThenCreateStockIn(p, rows, id, quantity, date) ==
    LET old == rows[id]
        n == old.SparePartName
        afterDelete == DeleteStockInNewQuantity(p[n].Quantity, old.StockInQuantity)
        deleted == ~WouldBeNegative(afterDelete)
        rq == NewRequest("createStockIn", n, quantity, 0, date, 0)
        ok == deleted /\ ~(StockInMissing(rq) \/ StockInNotPositive(rq))
        after == Put(Drop(rows, id), nextStockInID, StockInRow(rq))
    IN  [ok |-> ok, deleted |-> deleted,
         quantity |-> StockInNewQuantity(afterDelete, quantity),
         quantities |-> QuantityBag(after, [i \in DOMAIN after |-> after[i].StockInQuantity], n)]

\* deleteStockOut(id), then createStockOut(part of id, quantity, unitPrice, date).
DeleteThenCreateStockOut(p, rows, id, quantity, unitPrice, date) ==
    LET old == rows[id]
        n == old.SparePartName
        afterDelete == DeleteStockOutNewQuantity(p[n].Quantity, old.StockOutQuantity)
        rq == NewRequest("createStockOut", n, quantity, unitPrice, date, 0)
        ok == /\ ~(StockOutMissing(rq) \/ StockOutInvalid(rq))
              /\ ~InsufficientStock(afterDelete, quantity)
        after == Put(Drop(rows, id), nextStockOutID, StockOutRow(rq))
    IN  [ok |-> ok, deleted |-> TRUE,
         quantity |-> StockOutNewQuantity(afterDelete, quantity),
         quantities |-> QuantityBag(after, [i \in DOMAIN after |-> after[i].StockOutQuantity], n)]

\* The answered update of an existing stock-in (stock-out) to a quantity > 0.
UpdatedStockIn ==
    Answered("updateStockIn") /\ R.id \in DOMAIN R.pre.stockIn /\ WholePositive(R.quantity)
UpdatedStockOut ==
    Answered("updateStockOut") /\ R.id \in DOMAIN R.pre.stockOut /\ WholePositive(R.quantity)

AsDeleteThenCreateStockIn ==
    DeleteThenCreateStockIn(R.pre.parts, R.pre.stockIn, R.id, R.quantity, R.date)
AsDeleteThenCreateStockOut ==
    DeleteThenCreateStockOut(R.pre.parts, R.pre.stockOut, R.id, R.quantity, R.unitPrice, R.date)

\* The update has left the part's quantity and the quantities of its
\* movements as the deletion followed by the creation would have.
SameEndStateStockIn ==
    /\ parts[R.name].Quantity = AsDeleteThenCreateStockIn.quantity
    /\ QuantityBag(stockIn, InQuantity, R.name) = AsDeleteThenCreateStockIn.quantities
SameEndStateStockOut ==
    /\ parts[R.name].Quantity = AsDeleteThenCreateStockOut.quantity
    /\ QuantityBag(stockOut, OutQuantity, R.name) = AsDeleteThenCreateStockOut.quantities

\* C11 (as stated): the update of an existing movement to a quantity n > 0
\* succeeds exactly when its deletion followed by the creation of a movement
\* of quantity n both succeed, and then leaves the same part quantity and
\* the same movement quantities.
C11_UpdateIsDeleteThenCreate ==
    /\ UpdatedStockIn => /\ (R.status = 200) <=> AsDeleteThenCreateStockIn.ok
                         /\ R.status = 200 => SameEndStateStockIn
    /\ UpdatedStockOut => /\ (R.status = 200) <=> AsDeleteThenCreateStockOut.ok
                          /\ R.status = 200 => SameEndStateStockOut

\* C11 (amended): the update succeeds whenever the deletion followed by the
\* creation both succeed, and always leaves the part quantity and the
\* movement quantities they would leave if the deletion were not refused;
\* for a stock-out the update succeeds exactly when they do; for a stock-in
\* the update also succeeds when the deletion alone would be refused
\* (quantity - old < 0) while quantity - old + n >= 0.
C11_UpdateIsDeleteThenCreateUnlessDeleteRefused ==
    /\ UpdatedStockIn =>
          /\ AsDeleteThenCreateStockIn.ok => R.status = 200
          /\ R.status = 200 => SameEndStateStockIn
          /\ (R.status = 200 /\ ~AsDeleteThenCreateStockIn.ok)
                => /\ ~AsDeleteThenCreateStockIn.deleted
                   /\ R.pre.parts[R.name].Quantity < R.pre.stockIn[R.id].StockInQuantity
                   /\ AsDeleteThenCreateStockIn.quantity >= 0
    /\ UpdatedStockOut => /\ (R.status = 200) <=> AsDeleteThenCreateStockOut.ok
                          /\ R.status = 200 => SameEndStateStockOut

\* C11 witness: a stock-in has been updated to another quantity where its
\* deletion and re-creation would both have succeeded.
C11_Witness ==
    /\ UpdatedStockIn /\ R.status = 200 /\ AsDeleteThenCreateStockIn.ok
    /\ R.quantity # Num(R.pre.stockIn[R.id].StockInQuantity)

----------------------------------------------------------------------------
\* The movements of part n in tables t.
StockInsOf(t, n) == {i \in DOMAIN t.stockIn : t.stockIn[i].SparePartName = n}
StockOutsOf(t, n) == {i \in DOMAIN t.stockOut : t.stockOut[i].SparePartName = n}

\* The deleteStockIn request R found its movement to be the only movement
\* the part has had added since it was created with quantity Q.
DeletesTheOnlyStockIn ==
    /\ Answered("deleteStockIn") /\ R.id \in DOMAIN R.pre.stockIn
    /\ LET n == R.pre.stockIn[R.id].SparePartName
       IN  /\ StockInsOf(R.pre, n) = {R.id}
           /\ StockOutsOf(R.pre, n) = {}
           /\ R.pre.parts[n].Quantity = created[n] + R.pre.stockIn[R.id].StockInQuantity

\* C12: a part created with quantity Q, a stock-in of d > 0 into it and
\* then the deletion of that stock-in: the deletion succeeds, the part's
\* quantity is Q again and the part has no stock-in left.
C12_StockInRoundTrip ==
    DeletesTheOnlyStockIn
    => /\ R.status = 200
       /\ parts[R.name].Quantity = created[R.name]
       /\ \A i \in DOMAIN stockIn : stockIn[i].SparePartName # R.name

\* C12 witness: the round trip has been made on a part created with a
\* quantity Q > 0.
C12_Witness ==
    /\ DeletesTheOnlyStockIn /\ R.status = 200
    /\ created[R.name] > 0 /\ parts[R.name].Quantity = created[R.name]

----------------------------------------------------------------------------
\* The slot whose movement request ends in this step with a storage failure.
FailsNow(s) ==
    /\ req[s].kind \in MovementKinds /\ Active(s) /\ Free(s)'
    /\ answered'.error = "StorageFailure"

\* The change of the quantity of part n in this step is the change of its
\* ledger totals.
QuantityFollowsLedger(n) ==
    parts'[n].Quantity - parts[n].Quantity
        = (TotalStockIn(n)' - TotalStockIn(n)) - (TotalStockOut(n)' - TotalStockOut(n))

\* C13: a movement request that meets a storage error is rolled back and
\* leaves the ledger and the part quantities as they were before it; and no
\* step commits a movement change without the matching quantity change, or
\* a quantity change without the matching movement change.
C13_AllOrNothing ==
    [][/\ \A s \in Slots :
             FailsNow(s) => /\ answered'.txn = "rolledback"
                            /\ parts' = answered'.pre.parts
                            /\ stockIn' = answered'.pre.stockIn
                            /\ stockOut' = answered'.pre.stockOut
       /\ \A n \in DOMAIN parts \cap DOMAIN parts' : QuantityFollowsLedger(n)]_vars

\* C13 witness: a statement has thrown after the movement row was written
\* and before the part's quantity was.
C13_Witness ==
    /\ R.pc = "done" /\ R.kind \in MovementKinds
    /\ R.error = "StorageFailure" /\ R.failedAt = "updatePart"
    /\ R.movId # 0 \/ R.id \in DOMAIN R.pre.stockIn \cup DOMAIN R.pre.stockOut

----------------------------------------------------------------------------
\* C14: a movement request that has been answered, with an error as well,
\* has committed or rolled back the transaction it began by the time its
\* connection is released.
C14_NoOpenTransactionAtRelease ==
    (R.pc = "done" /\ R.kind \in MovementKinds) => R.txn \in {"committed", "rolledback"}

----------------------------------------------------------------------------
(* The catalog *)

\* The movement request of slot s on part n commits in this step.
MovementCommits(s, n) ==
    /\ req[s].kind \in MovementKinds /\ req[s].pc = "commit"
    /\ req[s].wMov # "none" /\ req[s].wPart /\ req[s].name = n
    /\ Free(s)' /\ answered'.error = "none"

\* The updatePart request of slot s on part n executes its UPDATE in this step.
UpdatePartWrites(s, n) ==
    /\ req[s].kind = "updatePart" /\ req[s].pc = "write" /\ req[s].name = n
    /\ Free(s)' /\ answered'.error = "none"

QuantityChanges(n) ==
    n \in DOMAIN parts \cap DOMAIN parts' /\ parts'[n].Quantity # parts[n].Quantity

\* C15 (as stated): every step that changes the quantity of an existing
\* part is the commit of a movement insert, update or delete on that part.
C15_OnlyMovementsWriteQuantity ==
    [][\A n \in PartNames : QuantityChanges(n) => \E s \in Slots : MovementCommits(s, n)]_vars

\* C15 (amended): every step that changes the quantity of an existing part
\* is the commit of a movement insert, update or delete on that part or the
\* UPDATE of an updatePart request for that part.
C15_OnlyMovementsAndUpdatePartWriteQuantity ==
    [][\A n \in PartNames :
          QuantityChanges(n) => \E s \in Slots : MovementCommits(s, n) \/ UpdatePartWrites(s, n)]_vars

\* C15 witness: updatePart has changed the quantity of a part that has a
\* movement.
C15_Witness ==
    /\ Answered("updatePart") /\ R.status = 200
    /\ parts[R.name].Quantity # R.pre.parts[R.name].Quantity
    /\ StockInsOf(R.pre, R.name) # {}

----------------------------------------------------------------------------
\* The request R has been answered and no statement of it threw for a
\* reason outside the request.
Served(kind) == R.pc = "done" /\ R.kind = kind /\ ~R.fault

ValidPart == R.name # "" /\ R.category # "" /\ R.quantity >= 0 /\ R.unitPrice >= 0

\* No createPart succeeds for a name the catalog holds: one part per name.
OnePartPerName == (Served("createPart") /\ R.status = 201) => R.name \notin DOMAIN R.pre.parts

\* C17 (as stated): createPart for a name the catalog holds fails with
\* Conflict and leaves the part as it was; there is one part per name.
C17_CreatePartConflict ==
    /\ (Served("createPart") /\ R.name \in DOMAIN R.pre.parts)
          => (R.error = "Conflict" /\ TablesAsBefore)
    /\ OnePartPerName

\* C17 (amended): createPart with valid arguments (a category, quantity and
\* unit price >= 0) for a name the catalog holds fails with Conflict; with
\* invalid arguments it fails with InvalidInput; in both cases the part is
\* left as it was; there is one part per name.
C17_ValidCreatePartConflict ==
    /\ (Served("createPart") /\ R.name \in DOMAIN R.pre.parts)
          => /\ R.error = (IF ValidPart THEN "Conflict" ELSE "InvalidInput")
             /\ TablesAsBefore
    /\ OnePartPerName

\* C17 witness: a createPart with other values for an existing name has
\* been refused as a conflict.
C17_Witness ==
    /\ Served("createPart") /\ R.error = "Conflict"
    /\ SparePartRow(R) # parts[R.name]

----------------------------------------------------------------------------
NegativeArguments == R.quantity < 0 \/ R.unitPrice < 0

ZeroPartAccepted ==
    (/\ Served("createPart") /\ R.name # "" /\ R.category # ""
     /\ R.quantity = 0 /\ R.unitPrice = 0 /\ R.name \notin DOMAIN R.pre.parts)
    => /\ R.status = 201
       /\ parts = Put(R.pre.parts, R.name,
                      [Category |-> R.category, Quantity |-> 0, UnitPrice |-> 0])

\* C19 (as stated): createPart and updatePart with a negative quantity or a
\* negative unit price are rejected with InvalidInput and change nothing;
\* createPart with quantity 0 and unit price 0 is accepted.
C19_NegativeRejected ==
    /\ ((Served("createPart") \/ Served("updatePart")) /\ NegativeArguments)
          => (R.error = "InvalidInput" /\ TablesAsBefore)
    /\ ZeroPartAccepted

\* C19 (amended): createPart, and updatePart of a part the catalog holds,
\* with a negative quantity or a negative unit price are rejected with
\* InvalidInput and change nothing; updatePart of a name the catalog does
\* not hold is answered NotFound whatever its arguments; createPart with
\* quantity 0 and unit price 0 is accepted.
C19_NegativeRejectedForExistingPart ==
    /\ (Served("createPart") /\ NegativeArguments)
          => (R.error = "InvalidInput" /\ TablesAsBefore)
    /\ (Served("updatePart") /\ NegativeArguments)
          => /\ R.error = (IF R.name \in DOMAIN R.pre.parts THEN "InvalidInput" ELSE "NotFound")
             /\ TablesAsBefore
    /\ ZeroPartAccepted

\* C19 witness: a part has been created with quantity 0 and unit price 0.
C19_Witness ==
    /\ Served("createPart") /\ R.status = 201
    /\ R.quantity = 0 /\ R.unitPrice = 0 /\ parts[R.name].Quantity = 0

----------------------------------------------------------------------------
\* C20: no step changes the part a movement references, from the creation
\* of the movement to its deletion.
C20_PartReferenceImmutable ==
    [][/\ \A i \in DOMAIN stockIn \cap DOMAIN stockIn' :
             stockIn'[i].SparePartName = stockIn[i].SparePartName
       /\ \A i \in DOMAIN stockOut \cap DOMAIN stockOut' :
             stockOut'[i].SparePartName = stockOut[i].SparePartName]_vars

\* C20 witness: a stock-in of one part has been updated by a request whose
\* body names another part.
C20_Witness ==
    /\ Answered("updateStockIn") /\ R.status = 200
    /\ R.bodyName # stockIn[R.id].SparePartName
    /\ R.bodyName \in DOMAIN parts

----------------------------------------------------------------------------
\* C16: every stock-in and every stock-out movement references a part of
\* the catalog, in every state: deletePart removes the part's movements in
\* the step that removes the part, and a movement insert that meets a
\* concurrent deletePart leaves no movement without its part.
C16_ReferentialIntegrity ==
    /\ \A i \in DOMAIN stockIn : stockIn[i].SparePartName \in DOMAIN parts
    /\ \A i \in DOMAIN stockOut : stockOut[i].SparePartName \in DOMAIN parts

\* C16 witness: a movement insert is about to be executed for a part its
\* handler has found and a concurrent deletePart has removed since.
C16_Witness ==
    \E s \in Slots :
        /\ req[s].kind \in {"createStockIn", "createStockOut"} /\ req[s].pc = "insert"
        /\ req[s].found /\ req[s].name \notin DOMAIN parts

----------------------------------------------------------------------------
ReadsOrEditsPart == Served("getPart") \/ Served("updatePart") \/ Served("deletePart")

\* C18: getPart, updatePart and deletePart of a name the catalog does not
\* hold answer NotFound and change nothing; none of them reports success
\* unless its statement met the part.
C18_MissingPartNotFound ==
    /\ (ReadsOrEditsPart /\ R.name \notin DOMAIN R.pre.parts)
          => (R.error = "NotFound" /\ TablesAsBefore)
    /\ (ReadsOrEditsPart /\ R.status = 200) => R.affected

----------------------------------------------------------------------------
\* An otherwise valid stock-out request: a whole quantity > 0, a date and
\* a unit price >= 0.
ValidStockOutArguments == WholePositive(R.quantity) /\ R.date # "" /\ R.unitPrice >= 0

\* C22: createStockOut and updateStockOut accept every unit price >= 0, the
\* price 0 as well: an otherwise valid request (existing part or movement,
\* quantity > 0, enough stock, a date) succeeds and the movement stores the
\* unit price of the request.
C22_ZeroUnitPriceAccepted ==
    /\ (/\ Answered("createStockOut") /\ ValidStockOutArguments
        /\ R.name \in DOMAIN R.pre.parts
        /\ R.quantity <= Num(R.pre.parts[R.name].Quantity))
          => /\ R.status = 201
             /\ \E i \in DOMAIN stockOut \ DOMAIN R.pre.stockOut :
                   stockOut[i].StockOutUnitPrice = R.unitPrice
    /\ (/\ Answered("updateStockOut") /\ ValidStockOutArguments
        /\ R.id \in DOMAIN R.pre.stockOut
        /\ LET old == R.pre.stockOut[R.id]
           IN  R.pre.parts[old.SparePartName].Quantity
                  + (old.StockOutQuantity - R.quantity \div 10) >= 0)
          => /\ R.status = 200
             /\ stockOut[R.id].StockOutUnitPrice = R.unitPrice

----------------------------------------------------------------------------
\* The arguments of the movement request R are valid ones.
ValidMovementArguments ==
    CASE R.kind \in {"createStockIn", "updateStockIn"} -> WholePositive(R.quantity) /\ R.date # ""
      [] R.kind \in {"createStockOut", "updateStockOut"} -> ValidStockOutArguments
      [] OTHER -> TRUE

\* The part or the movement the request R names was absent when it arrived.
ReferenceAbsent ==
    CASE R.kind \in {"createStockIn", "createStockOut"} -> R.name \notin DOMAIN R.pre.parts
      [] R.kind \in {"updateStockIn", "deleteStockIn"} -> R.id \notin DOMAIN R.pre.stockIn
      [] R.kind \in {"updateStockOut", "deleteStockOut"} -> R.id \notin DOMAIN R.pre.stockOut
      [] OTHER -> FALSE

\* C28: a movement request with valid arguments that names a part the
\* catalog does not hold, or a movement the ledger does not hold, is
\* answered NotFound and leaves every part and every movement as it was.
C28_AbsentReferenceNotFound ==
    (/\ R.pc = "done" /\ R.kind \in MovementKinds /\ R.error # "StorageFailure"
     /\ ValidMovementArguments /\ ReferenceAbsent)
    => (R.error = "NotFound" /\ TablesAsBefore)

----------------------------------------------------------------------------
\* The stock-out request of slot s commits in this step the movement i with
\* the unit price p.
StockOutCommits(s, i, p) ==
    /\ req[s].kind \in {"createStockOut", "updateStockOut"} /\ req[s].pc = "commit"
    /\ req[s].wMov \in {"ins", "upd"}
    /\ i = (IF req[s].wMov = "ins" THEN req[s].movId ELSE req[s].id)
    /\ p = req[s].unitPrice
    /\ Free(s)' /\ answered'.error = "none"

\* C21: the unit price of a stock-out movement is the unit price of the
\* request that created it; no step changes it afterwards (an updatePart
\* that changes the catalog price of its part included) except the commit
\* of an updateStockOut on that movement, which stores its request's price.
C21_UnitPriceSnapshot ==
    [][/\ \A i \in DOMAIN stockOut \cap DOMAIN stockOut' :
             stockOut'[i].StockOutUnitPrice # stockOut[i].StockOutUnitPrice
                => \E s \in Slots :
                      /\ req[s].kind = "updateStockOut"
                      /\ StockOutCommits(s, i, stockOut'[i].StockOutUnitPrice)
       /\ \A i \in DOMAIN stockOut' \ DOMAIN stockOut :
             \E s \in Slots :
                /\ req[s].kind = "createStockOut"
                /\ StockOutCommits(s, i, stockOut'[i].StockOutUnitPrice)]_vars

\* C21 witness: updatePart has changed the catalog unit price of a part
\* sold before at another price, and the movement shows the price of its sale.
C21_Witness ==
    /\ Answered("updatePart") /\ R.status = 200
    /\ parts[R.name].UnitPrice # R.pre.parts[R.name].UnitPrice
    /\ stockOut = R.pre.stockOut
    /\ \E i \in DOMAIN stockOut :
          /\ stockOut[i].SparePartName = R.name
          /\ stockOut[i].StockOutUnitPrice \notin
                {parts[R.name].UnitPrice, R.pre.parts[R.name].UnitPrice}

----------------------------------------------------------------------------
(* The listings and the reports, against the tables R.pre they were asked
   about. *)

ReadOnlyKinds == ReadKinds \cup {"getPart"}

\* C24: every step of a listing or a report (dailyStockOutReport,
\* stockStatusReport, listParts, getPart, the stock-in and stock-out
\* listings, getStockOut) leaves the catalog and both ledgers unchanged; the
\* reconstructed initial quantity is not written back.
C24_ReportsOnlyRead ==
    [][(\E s \in Slots : req[s].kind \in ReadOnlyKinds)
          => /\ parts' = parts /\ stockIn' = stockIn /\ stockOut' = stockOut
             /\ nextStockInID' = nextStockInID /\ nextStockOutID' = nextStockOutID]_vars

\* C24 witness: a stock status report has reconstructed for a part an
\* initial quantity that is not the part's quantity, and the part still has
\* its quantity.
C24_Witness ==
    /\ Served("stockStatusReport") /\ R.status = 200
    /\ \E k \in DOMAIN R.result.sparePartStatus :
          LET row == R.result.sparePartStatus[k]
          IN  /\ row.InitialQuantity # row.CurrentQuantity
              /\ parts[row.SparePartName].Quantity = row.CurrentQuantity

----------------------------------------------------------------------------
PreInQuantity == [i \in DOMAIN R.pre.stockIn |-> R.pre.stockIn[i].StockInQuantity]
PreOutQuantity == [i \in DOMAIN R.pre.stockOut |-> R.pre.stockOut[i].StockOutQuantity]
PreOutValue ==
    [i \in DOMAIN R.pre.stockOut |->
        R.pre.stockOut[i].StockOutQuantity * R.pre.stockOut[i].StockOutUnitPrice]

\* The stock-out movements of the day the report R was asked for.
StockOutsOn(date) == {i \in DOMAIN R.pre.stockOut : R.pre.stockOut[i].StockOutDate = date}

\* C25: dailyStockOutReport(date) succeeds and returns exactly the stock-out
\* movements of that date, their number, the sum of their quantities and the
\* sum of their quantity * unit price; with no movement of that date it
\* returns no record and three aggregates equal to 0.
C25_DailyStockOutReport ==
    (Served("dailyStockOutReport") /\ R.date # "")
    => LET ids == StockOutsOn(R.date)
           data == R.result
       IN  /\ R.status = 200
           /\ data.reportDate = R.date
           /\ DOMAIN data.records = ids
           /\ \A i \in ids : data.records[i] = R.pre.stockOut[i]
           /\ data.summary.totalRecords = Cardinality(ids)
           /\ data.summary.totalQuantity = Sum(PreOutQuantity, ids)
           /\ ParseFloat(data.summary.totalValue) = Sum(PreOutValue, ids)
           /\ ids = {} => /\ data.summary.totalRecords = 0
                          /\ data.summary.totalQuantity = 0
                          /\ ParseFloat(data.summary.totalValue) = 0

\* C25 witness: the report of a day that has a movement, asked for while the
\* ledger holds a movement of another day.
C25_Witness ==
    /\ Served("dailyStockOutReport") /\ R.date # "" /\ R.status = 200
    /\ R.result.summary.totalRecords = 1 /\ R.result.summary.totalQuantity > 0
    /\ \E i \in DOMAIN stockOut : stockOut[i].StockOutDate # R.date

----------------------------------------------------------------------------
\* Part.quantity, clamped to >= 0, and its value, of every part the report
\* R was asked about.
PreCurrentQuantity ==
    [n \in DOMAIN R.pre.parts |->
        IF R.pre.parts[n].Quantity > 0 THEN R.pre.parts[n].Quantity ELSE 0]
PreCurrentValue ==
    [n \in DOMAIN R.pre.parts |-> PreCurrentQuantity[n] * R.pre.parts[n].UnitPrice]

\* C26: stockStatusReport() returns one row for every part of the catalog,
\* with totalStockIn and totalStockOut the sums of the part's stock-in and
\* stock-out quantities (0 if none), currentQuantity = max(0, quantity) and
\* totalValue = currentQuantity * unitPrice, and the summary totals
\* totalParts, totalCurrentQuantity and totalCurrentValue over the rows.
C26_StockStatusReport ==
    Served("stockStatusReport")
    => LET rows == R.result.sparePartStatus
           summary == R.result.summary
           names == DOMAIN R.pre.parts
       IN  /\ R.status = 200
           /\ {rows[k].SparePartName : k \in DOMAIN rows} = names
           /\ Len(rows) = Cardinality(names)
           /\ \A k \in DOMAIN rows :
                 LET n == rows[k].SparePartName
                 IN  /\ ToNumber(rows[k].TotalStockIn) = Sum(PreInQuantity, StockInsOf(R.pre, n))
                     /\ ToNumber(rows[k].TotalStockOut) = Sum(PreOutQuantity, StockOutsOf(R.pre, n))
                     /\ rows[k].CurrentQuantity = PreCurrentQuantity[n]
                     /\ ParseFloat(rows[k].TotalPrice) = PreCurrentValue[n]
           /\ summary.totalParts = Cardinality(names)
           /\ summary.totalCurrentQuantity = Sum(PreCurrentQuantity, names)
           /\ ParseFloat(summary.totalCurrentValue) = Sum(PreCurrentValue, names)

\* C26 witness: Filter was created with quantity 10 at price 500 and 4 were
\* sold; the report shows for it totalStockIn 0, totalStockOut 4,
\* currentQuantity 6 and totalValue 3000, next to another part.
C26_Witness ==
    /\ Served("stockStatusReport") /\ R.status = 200
    /\ "Filter" \in DOMAIN created /\ created["Filter"] = 10
    /\ R.result.summary.totalParts = 2
    /\ \E k \in DOMAIN R.result.sparePartStatus :
          LET row == R.result.sparePartStatus[k]
          IN  /\ row.SparePartName = "Filter"
              /\ ToNumber(row.TotalStockIn) = 0 /\ ToNumber(row.TotalStockOut) = 4
              /\ row.CurrentQuantity = 6 /\ ParseFloat(row.TotalPrice) = 3000

----------------------------------------------------------------------------
\* C27: stockStatusReport() flags as low stock exactly the parts whose
\* current quantity is below 10 (10 is not flagged, 9 and 0 are), counts
\* them in lowStockItemsCount, and the frontend labels the same parts
\* 'Low Stock'.
C27_LowStock ==
    Served("stockStatusReport")
    => LET rows == R.result.sparePartStatus
           low == R.result.lowStockItems
           flagged == {low[k].SparePartName : k \in DOMAIN low}
       IN  /\ flagged = {n \in DOMAIN R.pre.parts : PreCurrentQuantity[n] < 10}
           /\ Len(low) = Cardinality(flagged)
           /\ R.result.summary.lowStockItemsCount = Cardinality(flagged)
           /\ \A k \in DOMAIN rows :
                 (GetStockStatus(rows[k].CurrentQuantity) = "Low Stock")
                    <=> rows[k].SparePartName \in flagged

\* C27 witness: the report of a catalog with a part of quantity 10 and a
\* part of quantity 9 or 0 has flagged one part.
C27_Witness ==
    /\ Served("stockStatusReport") /\ R.status = 200
    /\ \E n, m \in DOMAIN parts : parts[n].Quantity = 10 /\ parts[m].Quantity \in {0, 9}
    /\ R.result.summary.lowStockItemsCount = 1

----------------------------------------------------------------------------
\* What tables p, si, so hold about part n: its row and its movements.
PartView(p, si, so, n) ==
    [row |-> IF n \in DOMAIN p THEN {p[n]} ELSE {},
     stockIn |-> [i \in {j \in DOMAIN si : si[j].SparePartName = n} |-> si[i]],
     stockOut |-> [i \in {j \in DOMAIN so : so[j].SparePartName = n} |-> so[i]]]

\* The request of slot s takes this step.
StepsNow(s) == req'[s] # req[s]

\* C23: a step of a movement insert, update or delete on one part, whether
\* it commits, fails or rolls back, and whatever the requests on another
\* part are doing in between, leaves the other part's quantity, category
\* and unit price and all of its movements unchanged.
C23_PartsIndependent ==
    [][\A s \in Slots : \A b \in PartNames :
          (req[s].kind \in MovementKinds /\ StepsNow(s) /\ req[s].name # b)
             => PartView(parts', stockIn', stockOut', b) = PartView(parts, stockIn, stockOut, b)]_vars

\* C23 witness: a stock-in of one part is about to commit, while a stock-in
\* of the other part, inserted after it, has committed and changed that
\* part's quantity.
C23_Witness ==
    \E t \in Slots :
        /\ req[t].kind = "createStockIn" /\ req[t].pc = "commit" /\ req[t].wPart
        /\ \E i \in DOMAIN stockIn :
              /\ stockIn[i].SparePartName # req[t].name
              /\ i > req[t].movId
              /\ parts[stockIn[i].SparePartName].Quantity # created[stockIn[i].SparePartName]

----------------------------------------------------------------------------
\* The request R creates or updates a movement.
WritesQuantity ==
    /\ R.pc = "done" /\ R.error # "StorageFailure"
    /\ R.kind \in {"createStockIn", "updateStockIn", "createStockOut", "updateStockOut"}

\* A field of the request R is missing.
FieldMissing ==
    \/ R.date = ""
    \/ R.kind \in {"createStockIn", "createStockOut"} /\ R.name = ""

\* C29: createStockIn, updateStockIn, createStockOut and updateStockOut with
\* a quantity <= 0 or a missing field are rejected with InvalidInput and
\* leave the ledger and every part quantity unchanged; every movement
\* stored in the ledger has a quantity >= 1, in every state.
C29_QuantityAtLeastOne ==
    /\ (WritesQuantity /\ (R.quantity <= 0 \/ FieldMissing))
          => (R.error = "InvalidInput" /\ TablesAsBefore)
    /\ \A i \in DOMAIN stockIn : stockIn[i].StockInQuantity >= 1
    /\ \A i \in DOMAIN stockOut : stockOut[i].StockOutQuantity >= 1

----------------------------------------------------------------------------
\* C30: every movement request that has arrived is eventually answered,
\* with success or with an error and its reason, also when the pooled
\* connection cannot be acquired.
C30_MovementRequestsAnswered ==
    \A s \in Slots :
        (req[s].kind \in MovementKinds) ~> (Free(s) /\ answered.pc = "done" /\ answered.status # 0)

----------------------------------------------------------------------------
\* The movement request of slot s is answered with success in this step.
SucceedsNow(s) ==
    /\ req[s].kind \in MovementKinds /\ Active(s) /\ Free(s)'
    /\ answered'.status \in {200, 201}

\* The movement change of request r is in the tables si, so.
MovementChangeIn(r, si, so) ==
    LET rows == IF Table(r.kind) = "Stock_In" THEN si ELSE so
        before == IF Table(r.kind) = "Stock_In" THEN stockIn ELSE stockOut
    IN  CASE r.kind \in {"createStockIn", "createStockOut"} ->
                /\ r.movId \in DOMAIN rows \ DOMAIN before
                /\ rows[r.movId].SparePartName = r.name
                /\ Num(IF Table(r.kind) = "Stock_In" THEN rows[r.movId].StockInQuantity
                       ELSE rows[r.movId].StockOutQuantity) = r.quantity
          [] r.kind \in {"updateStockIn", "updateStockOut"} ->
                /\ r.id \in DOMAIN rows
                /\ Num(IF Table(r.kind) = "Stock_In" THEN rows[r.id].StockInQuantity
                       ELSE rows[r.id].StockOutQuantity) = r.quantity
                /\ (IF Table(r.kind) = "Stock_In" THEN rows[r.id].StockInDate
                    ELSE rows[r.id].StockOutDate) = r.date
          [] OTHER -> r.id \in DOMAIN before \ DOMAIN rows

\* C31: a movement request is answered with success only in the step that
\* commits its transaction, and that step makes both the movement change
\* and the matching quantity change visible; a request whose commit fails
\* is answered with an error and the tables stay as they were before it.
C31_SuccessOnlyAfterCommit ==
    [][\A s \in Slots :
          /\ SucceedsNow(s)
                => /\ req[s].pc = "commit" /\ answered'.txn = "committed"
                   /\ MovementChangeIn(req[s], stockIn', stockOut')
                   /\ parts'[req[s].name].Quantity = req[s].newQuantity
                   /\ \A n \in {req[s].name} :
                         req[s].newQuantity - answered'.pre.parts[n].Quantity
                            = (TotalStockIn(n)' - TotalStockIn(n))
                                 - (TotalStockOut(n)' - TotalStockOut(n))
          /\ (FailsNow(s) /\ req[s].pc = "commit")
                => /\ answered'.status = 500
                   /\ parts' = answered'.pre.parts
                   /\ stockIn' = answered'.pre.stockIn
                   /\ stockOut' = answered'.pre.stockOut]_vars

\* C31 witness: the commit of a request that had written another quantity
\* for its part has failed, and the request has been answered with the error.
C31_Witness ==
    /\ R.pc = "done" /\ R.kind \in MovementKinds
    /\ R.error = "StorageFailure" /\ R.failedAt = "commit"
    /\ R.name \in DOMAIN parts /\ R.newQuantity # parts[R.name].Quantity
    /\ TablesAsBefore

----------------------------------------------------------------------------
\* C32: the initial quantity stockStatusReport() shows for a part is
\* max(0, currentQuantity + totalStockOut - totalStockIn), and for a part
\* changed by movement requests only, executed one at a time, it is the
\* quantity the part was created with.
C32_InitialQuantityReconstructed ==
    Served("stockStatusReport")
    => \A k \in DOMAIN R.result.sparePartStatus :
          LET row == R.result.sparePartStatus[k]
              n == row.SparePartName
              reconstructed == PreCurrentQuantity[n]
                                  + Sum(PreOutQuantity, StockOutsOf(R.pre, n))
                                  - Sum(PreInQuantity, StockInsOf(R.pre, n))
          IN  /\ row.InitialQuantity = (IF reconstructed > 0 THEN reconstructed ELSE 0)
              /\ row.InitialQuantity = created[n]

----------------------------------------------------------------------------
\* C33: in every state the stored total of every stock-out movement is its
\* quantity times its unit price and the stored total value of every part
\* is its quantity times its unit price, also right after an update of the
\* movement or a movement on the part; the totals are kept for exactly the
\* rows of the tables.
C33_TotalsDerived ==
    /\ DOMAIN totals.out = DOMAIN stockOut
    /\ \A i \in DOMAIN stockOut :
          totals.out[i] = stockOut[i].StockOutQuantity * stockOut[i].StockOutUnitPrice
    /\ DOMAIN totals.part = DOMAIN parts
    /\ \A n \in DOMAIN parts : totals.part[n] = parts[n].Quantity * parts[n].UnitPrice

\* C33 witness: an updateStockOut has changed the unit price of a movement
\* of a part whose quantity movements have changed since its creation.
C33_Witness ==
    /\ Answered("updateStockOut") /\ R.status = 200
    /\ stockOut[R.id].StockOutUnitPrice # R.pre.stockOut[R.id].StockOutUnitPrice
    /\ totals.out[R.id] = R.unitPrice * stockOut[R.id].StockOutQuantity
    /\ totals.out[R.id] > 0
    /\ parts[R.name].Quantity # created[R.name]
    /\ totals.part[R.name] = parts[R.name].Quantity * parts[R.name].UnitPrice

----------------------------------------------------------------------------
\* C34: once every one of the concurrent deletions of one movement has
\* completed and the last of them has succeeded, the movement is removed
\* and the quantity of its part is the quantity before the deletions plus
\* the quantity of the stock-out (minus the quantity of the stock-in),
\* changed once, so that the part agrees with its ledger.
C34_ReturnedOnce ==
    (/\ NoRequestInFlight
     /\ R.pc = "done" /\ R.status = 200
     /\ R.kind \in {"deleteStockIn", "deleteStockOut"})
    => LET n == R.name IN
       /\ R.kind = "deleteStockOut" =>
            /\ R.id \in DOMAIN R.pre.stockOut /\ R.id \notin DOMAIN stockOut
            /\ parts[n].Quantity
                 = R.pre.parts[n].Quantity + R.pre.stockOut[R.id].StockOutQuantity
       /\ R.kind = "deleteStockIn" =>
            /\ R.id \in DOMAIN R.pre.stockIn /\ R.id \notin DOMAIN stockIn
            /\ parts[n].Quantity
                 = R.pre.parts[n].Quantity - R.pre.stockIn[R.id].StockInQuantity
       /\ parts[n].Quantity - created[n] = TotalStockIn(n) - TotalStockOut(n)

\* C34 witness: a deletion has succeeded whose DELETE found the movement
\* already removed by the deletion that ran at the same time, after it had
\* read the movement and computed the quantity to return.
C34_Witness ==
    /\ NoRequestInFlight
    /\ R.pc = "done" /\ R.status = 200 /\ R.kind = "deleteStockOut"
    /\ R.found /\ ~R.affected
    /\ R.oldQuantity > 0
    /\ parts[R.name].Quantity = R.pre.parts[R.name].Quantity + R.oldQuantity

----------------------------------------------------------------------------
\* C35: a createPart of valid arguments that met no storage fault reports
\* success or Conflict, also when another createPart of the same name ran
\* at the same time; afterwards one part of the name exists, and a request
\* that reports success is the one whose part it is.
C35_LoserReportsConflict ==
    (/\ R.pc = "done" /\ R.kind = "createPart" /\ ~R.fault
     /\ ~CreatePartMissing(R) /\ ~CreatePartInvalid(R))
    => /\ R.name \in DOMAIN parts
       /\ R.status \in {201, 409}
       /\ R.status = 201 => parts[R.name] = SparePartRow(R)
       /\ R.status = 409 => R.error = "Conflict"

----------------------------------------------------------------------------
\* C36: the connections handed out by the pool are exactly those of the
\* movement handlers inside their try block: a handler that has left it, by
\* a response of any status or by a rejection, has released its connection
\* once; the number handed out is never above the pool's limit and is 0
\* when no request is in flight.
C36_ConnectionsReleased ==
    /\ checkedOut = Cardinality({s \in Slots : HoldsConnection(req[s])})
    /\ checkedOut <= connectionLimit
    /\ NoRequestInFlight => checkedOut = 0

\* C36 witness: a movement request has been answered by an early return
\* (invalid input, movement not found, business rule), its transaction
\* left open, and no connection is handed out.
C36_Witness ==
    /\ NoRequestInFlight
    /\ R.pc = "done" /\ R.kind \in MovementKinds
    /\ R.status \in {400, 404} /\ R.txn = "open"
    /\ checkedOut = 0

----------------------------------------------------------------------------
(* The routes behind requireAuth *)

\* A catalog, ledger or report request arrives in this step.
ArrivesNow == arrivals' = arrivals + 1

\* A request arriving on a session with no logged-in user is answered
\* 'Authentication required' and no handler runs; the tables change only
\* in a step of a handler that was let in.
AuthGate ==
    /\ (ArrivesNow /\ ~session.user) =>
          /\ answered'.pc = "done" /\ answered'.status = 401
          /\ answered'.error = "AuthenticationRequired"
          /\ req' = req /\ checkedOut' = checkedOut
          /\ db' = db /\ created' = created
          /\ nextStockInID' = nextStockInID /\ nextStockOutID' = nextStockOutID
    /\ (ArrivesNow /\ session.user) => \E s \in Slots : Free(s) /\ Active(s)'
    /\ (db' # db \/ created' # created) => \E s \in Slots : Active(s)

\* C37 as stated: requests without a logged-in user are refused and change
\* nothing, and the session has a logged-in user exactly when the last of
\* the successful logins and the logouts was a login.
C37_LoggedInFromLoginUntilLogout ==
    [][AuthGate /\ (session'.user <=> session'.last = "login")]_vars

\* C37, amended: requests without a logged-in user are refused and change
\* nothing; the session has a logged-in user only if the last of the
\* successful logins and the logouts was a login, it has one right after a
\* successful login and none right after a logout (it loses the user as
\* well when it expires).
C37_LoggedInOnlyAfterLogin ==
    [][/\ AuthGate
       /\ session'.user => session'.last = "login"
       /\ (session'.last # session.last /\ session'.last = "login") => session'.user
       /\ (~session.user /\ session'.user) => session'.last = "login"
       /\ (session.user /\ ~session'.user) => session.last = "login"]_vars

\* C37 witness: after a logout, a stock-in on an existing part has been
\* answered 'Authentication required' and has left the tables as they were.
C37_Witness ==
    /\ R.pc = "done" /\ R.kind = "createStockIn" /\ R.status = 401
    /\ R.name \in DOMAIN parts
    /\ session.last = "logout" /\ ~session.user
    /\ TablesAsBefore

====
